---------------------------- MODULE Spec2Model ----------------------------
(***************************************************************************)
(* A model of the shogistack server: one room of the in-memory room map,   *)
(* the socket handlers of index.js acting on it, its clock, and the rules  *)
(* of gameUtils.js.                                                        *)
(*                                                                         *)
(* src/index.js imports isCheckmate from ./gameUtils; the gameUtils.js     *)
(* that exports it (with hasLegalMoves and the checkUchiFuzume parameter   *)
(* of isValidMove) is the copy at src/unnamed/part_000 lines 1214-1537.    *)
(* The rules below follow that copy; where src/gameUtils.js holds the same *)
(* text the two agree line for line.                                       *)
(***************************************************************************)
EXTENDS Integers, Sequences, FiniteSets, TLC

(***************************************************************************)
(* gameUtils.js: pieces, board, hands                                      *)
(***************************************************************************)

PIECE_TYPES ==
  { "Pawn", "Lance", "Knight", "Silver", "Gold", "Bishop", "Rook", "King",
    "PromotedPawn", "PromotedLance", "PromotedKnight", "PromotedSilver",
    "Horse", "Dragon" }

SFEN_MAP ==
  [ Pawn |-> "p", Lance |-> "l", Knight |-> "n", Silver |-> "s", Gold |-> "g",
    Bishop |-> "b", Rook |-> "r", King |-> "k",
    PromotedPawn |-> "+p", PromotedLance |-> "+l", PromotedKnight |-> "+n",
    PromotedSilver |-> "+s", Horse |-> "+b", Dragon |-> "+r" ]

EMPTY_HAND == [ t \in PIECE_TYPES |-> 0 ]

Sides == { "sente", "gote" }

Other(side) == IF side = "sente" THEN "gote" ELSE "sente"

\* null, the content of an empty square
Null == [ type |-> "null", owner |-> "null", isPromoted |-> FALSE ]

Piece(type, owner) == [ type |-> type, owner |-> owner, isPromoted |-> FALSE ]

Coord == 0..8

BackRank ==
  << "Lance", "Knight", "Silver", "Gold", "King", "Gold", "Silver", "Knight", "Lance" >>

\* board[y][x]; y = 0 is gote's back rank, y = 8 sente's
createInitialBoard ==
  [ y \in Coord |-> [ x \in Coord |->
      CASE y = 0 -> Piece(BackRank[x + 1], "gote")
        [] y = 1 /\ x = 1 -> Piece("Rook", "gote")
        [] y = 1 /\ x = 7 -> Piece("Bishop", "gote")
        [] y = 2 -> Piece("Pawn", "gote")
        [] y = 6 -> Piece("Pawn", "sente")
        [] y = 7 /\ x = 7 -> Piece("Rook", "sente")
        [] y = 7 /\ x = 1 -> Piece("Bishop", "sente")
        [] y = 8 -> Piece(BackRank[x + 1], "sente")
        [] OTHER -> Null ] ]

InitialHands == [ sente |-> EMPTY_HAND, gote |-> EMPTY_HAND ]

getReversePieceType(type) ==
  CASE type = "PromotedPawn" -> "Pawn"
    [] type = "PromotedLance" -> "Lance"
    [] type = "PromotedKnight" -> "Knight"
    [] type = "PromotedSilver" -> "Silver"
    [] type = "Horse" -> "Bishop"
    [] type = "Dragon" -> "Rook"
    [] OTHER -> type

promotePiece(type) ==
  CASE type = "Pawn" -> "PromotedPawn"
    [] type = "Lance" -> "PromotedLance"
    [] type = "Knight" -> "PromotedKnight"
    [] type = "Silver" -> "PromotedSilver"
    [] type = "Bishop" -> "Horse"
    [] type = "Rook" -> "Dragon"
    [] OTHER -> type

Abs(n) == IF n < 0 THEN -n ELSE n

Sign(n) == IF n > 0 THEN 1 ELSE IF n < 0 THEN -1 ELSE 0

Max(a, b) == IF a > b THEN a ELSE b

\* The loop walks from (x1,y1) towards (x2,y2) one step at a time; it is only
\* called on a straight or diagonal line, where it visits the squares strictly
\* between the two ends.
hasObstacle(x1, y1, x2, y2, board) ==
  LET dx == Sign(x2 - x1)
      dy == Sign(y2 - y1)
      n  == Max(Abs(x2 - x1), Abs(y2 - y1))
  IN  \E k \in 1..(n - 1) : board[y1 + k * dy][x1 + k * dx] # Null

canPieceMoveTo(board, from, to, pieceObj, currentTurn) ==
  LET dx == to.x - from.x
      dy == to.y - from.y
      forward == IF currentTurn = "sente" THEN -1 ELSE 1
      type == pieceObj.type
      promoted == pieceObj.isPromoted
      goldMove ==
        \/ (Abs(dx) = 1 /\ dy = 0) \/ (Abs(dx) = 0 /\ Abs(dy) = 1)
        \/ (Abs(dx) = 1 /\ dy = forward)
  IN  CASE type = "Pawn" -> IF ~promoted THEN dx = 0 /\ dy = forward ELSE goldMove
        [] type = "King" -> Abs(dx) <= 1 /\ Abs(dy) <= 1
        [] type = "Gold" -> goldMove
        [] type = "Silver" ->
             IF promoted THEN goldMove
             ELSE \/ (Abs(dx) <= 1 /\ dy = forward)
                  \/ (Abs(dx) = 1 /\ dy = -forward)
        [] type = "Knight" ->
             IF promoted THEN goldMove
             ELSE Abs(dx) = 1 /\ dy = forward * 2
        [] type = "Lance" ->
             IF promoted THEN goldMove
             ELSE IF dx # 0 THEN FALSE
             ELSE IF (IF currentTurn = "sente" THEN dy >= 0 ELSE dy <= 0) THEN FALSE
             ELSE ~hasObstacle(from.x, from.y, to.x, to.y, board)
        [] type \in { "Bishop", "Horse" } ->
             IF Abs(dx) = Abs(dy) THEN ~hasObstacle(from.x, from.y, to.x, to.y, board)
             ELSE promoted /\ Abs(dx) + Abs(dy) = 1
        [] type \in { "Rook", "Dragon" } ->
             IF dx = 0 \/ dy = 0 THEN ~hasObstacle(from.x, from.y, to.x, to.y, board)
             ELSE promoted /\ Abs(dx) <= 1 /\ Abs(dy) <= 1
        [] OTHER ->
             IF type \in { "PromotedPawn", "PromotedLance", "PromotedKnight", "PromotedSilver" }
             THEN goldMove ELSE FALSE

\* move.from is the string 'hand' on a drop; Hand stands for it
Hand == [ x |-> -1, y |-> -1 ]

\* NaN, and undefined where a number is expected: what a count of a hand is
\* for a kind the hand has no key of, and after arithmetic on such a count
NaN == -1000000

\* hand[kind]
CountOf(hand, kind) == IF kind \in DOMAIN hand THEN hand[kind] ELSE NaN

\* hand[kind] += d, which leaves NaN where the count was NaN or undefined
Changed(hand, kind, d) ==
  [ k \in DOMAIN hand \cup { kind } |->
      IF k # kind THEN hand[k]
      ELSE IF CountOf(hand, kind) = NaN THEN NaN ELSE hand[kind] + d ]

applyMove(currentBoard, currentHands, move, currentTurn) ==
  LET nextTurn == Other(currentTurn)
  IN  IF move.drop
      THEN [ board |-> [ currentBoard EXCEPT ![move.to.y][move.to.x] =
                           [ type |-> move.piece, owner |-> currentTurn, isPromoted |-> FALSE ] ],
             hands |-> [ currentHands EXCEPT
                           ![currentTurn] = Changed(@, move.piece, -1) ],
             turn  |-> nextTurn ]
      ELSE LET piece == currentBoard[move.from.y][move.from.x]
               targetSquare == currentBoard[move.to.y][move.to.x]
               newType == IF move.isPromoted THEN promotePiece(piece.type) ELSE piece.type
               placed == [ piece EXCEPT !.type = newType,
                                        !.isPromoted = move.isPromoted \/ piece.isPromoted ]
           IN  [ board |-> [ [ currentBoard EXCEPT ![move.to.y][move.to.x] = placed ]
                               EXCEPT ![move.from.y][move.from.x] = Null ],
                 hands |-> IF targetSquare # Null
                           THEN [ currentHands EXCEPT
                                    ![currentTurn] =
                                      Changed(@, getReversePieceType(targetSquare.type), 1) ]
                           ELSE currentHands,
                 turn  |-> nextTurn ]

\* the squares in the order of the two nested loops, y outside and x inside
Squares == { [ x |-> x, y |-> y ] : x \in Coord, y \in Coord }

ScanIndex(sq) == sq.y * 9 + sq.x

isKingInCheck(board, targetTurn) ==
  LET attackerTurn == Other(targetTurn)
      kings == { sq \in Squares : board[sq.y][sq.x].type = "King"
                                  /\ board[sq.y][sq.x].owner = targetTurn }
  IN  IF kings = {} THEN FALSE
      ELSE LET kingPos == CHOOSE k \in kings : \A o \in kings : ScanIndex(k) <= ScanIndex(o)
           IN  \E sq \in Squares :
                 /\ board[sq.y][sq.x] # Null
                 /\ board[sq.y][sq.x].owner = attackerTurn
                 /\ canPieceMoveTo(board, sq, kingPos, board[sq.y][sq.x], attackerTurn)

\* isValidMove up to and including the self-check test, which is all of it
\* when checkUchiFuzume is false
isValidMoveBase(board, hands, currentTurn, move) ==
  LET to == move.to
      piece == move.piece
  IN  /\ ~(to.x < 0 \/ to.x > 8 \/ to.y < 0 \/ to.y > 8)
      /\ LET targetPiece == board[to.y][to.x]
         IN  /\ ~(targetPiece # Null /\ targetPiece.owner = currentTurn)
             /\ (~move.drop /\ ~move.isPromoted) =>
                  IF currentTurn = "sente"
                  THEN /\ ~(piece \in { "Pawn", "Lance" } /\ to.y = 0)
                       /\ ~(piece = "Knight" /\ to.y <= 1)
                  ELSE /\ ~(piece \in { "Pawn", "Lance" } /\ to.y = 8)
                       /\ ~(piece = "Knight" /\ to.y >= 7)
             /\ IF move.drop
                THEN /\ targetPiece = Null
                     /\ ~( CountOf(hands[currentTurn], piece) # NaN
                            /\ CountOf(hands[currentTurn], piece) <= 0 )
                     /\ piece = "Pawn" =>
                          ~\E y \in Coord :
                              /\ board[y][to.x] # Null
                              /\ board[y][to.x].owner = currentTurn
                              /\ board[y][to.x].type = "Pawn"
                              /\ ~board[y][to.x].isPromoted
                     /\ IF currentTurn = "sente"
                        THEN /\ ~(piece \in { "Pawn", "Lance" } /\ to.y = 0)
                             /\ ~(piece = "Knight" /\ to.y <= 1)
                        ELSE /\ ~(piece \in { "Pawn", "Lance" } /\ to.y = 8)
                             /\ ~(piece = "Knight" /\ to.y >= 7)
                ELSE /\ move.from # Hand
                     /\ LET movingPiece == board[move.from.y][move.from.x]
                        IN  /\ movingPiece # Null
                            /\ movingPiece.owner = currentTurn
                            /\ canPieceMoveTo(board, move.from, to, movingPiece, currentTurn)
             /\ ~isKingInCheck(applyMove(board, hands, move, currentTurn).board, currentTurn)

PromotableTypes == { "Pawn", "Lance", "Knight", "Silver", "Bishop", "Rook" }

hasLegalMoves(board, hands, turn) ==
  \/ \E sq \in Squares : \E tq \in Squares :
       LET p == board[sq.y][sq.x]
           move == [ from |-> sq, to |-> tq, piece |-> p.type,
                     drop |-> FALSE, isPromoted |-> FALSE ]
       IN  /\ p # Null
           /\ p.owner = turn
           /\ ~(board[tq.y][tq.x] # Null /\ board[tq.y][tq.x].owner = turn)
           /\ canPieceMoveTo(board, sq, tq, p, turn)
           /\ \/ isValidMoveBase(board, hands, turn, move)
              \/ /\ p.type \in PromotableTypes
                 /\ IF turn = "sente" THEN sq.y <= 2 \/ tq.y <= 2
                                      ELSE sq.y >= 6 \/ tq.y >= 6
                 /\ isValidMoveBase(board, hands, turn, [ move EXCEPT !.isPromoted = TRUE ])
  \/ \E pieceType \in DOMAIN hands[turn] : \E tq \in Squares :
       /\ hands[turn][pieceType] # NaN
       /\ hands[turn][pieceType] > 0
       /\ board[tq.y][tq.x] = Null
       /\ isValidMoveBase(board, hands, turn,
            [ from |-> Hand, to |-> tq, piece |-> pieceType,
              drop |-> TRUE, isPromoted |-> FALSE ])

\* A faulty isValidMove for sensitivity runs: no test of the pawn drop that mates.
isValidMoveNoUchi(board, hands, currentTurn, move, checkUchiFuzume) ==
  isValidMoveBase(board, hands, currentTurn, move)

isValidMove(board, hands, currentTurn, move, checkUchiFuzume) ==
  /\ isValidMoveBase(board, hands, currentTurn, move)
  /\ (checkUchiFuzume /\ move.drop /\ move.piece = "Pawn") =>
       LET nextState == applyMove(board, hands, move, currentTurn)
           nextTurn == Other(currentTurn)
       IN  ~(/\ isKingInCheck(nextState.board, nextTurn)
             /\ ~hasLegalMoves(nextState.board, nextState.hands, nextTurn))

\* A faulty isCheckmate for sensitivity runs: it looks at the mover's king.
isCheckmateOwnKing(board, hands, turn) ==
  isKingInCheck(board, Other(turn)) /\ ~hasLegalMoves(board, hands, turn)

isCheckmate(board, hands, turn) ==
  isKingInCheck(board, turn) /\ ~hasLegalMoves(board, hands, turn)

(***************************************************************************)
(* gameUtils.js: generateSFEN                                              *)
(***************************************************************************)

\* String.prototype.toUpperCase on the values of SFEN_MAP
toUpperCase(char) ==
  CASE char = "p" -> "P" [] char = "l" -> "L" [] char = "n" -> "N"
    [] char = "s" -> "S" [] char = "g" -> "G" [] char = "b" -> "B"
    [] char = "r" -> "R" [] char = "k" -> "K"
    [] char = "+p" -> "+P" [] char = "+l" -> "+L" [] char = "+n" -> "+N"
    [] char = "+s" -> "+S" [] char = "+b" -> "+B" [] char = "+r" -> "+R"
    [] OTHER -> char

\* the inner loop over x of one rank, from column x on, with `empty` squares pending
RECURSIVE RankSFEN(_, _, _, _)
RankSFEN(board, y, x, empty) ==
  IF x > 8 THEN (IF empty > 0 THEN ToString(empty) ELSE "")
  ELSE LET p == board[y][x]
       IN  IF p = Null THEN RankSFEN(board, y, x + 1, empty + 1)
           ELSE LET char == IF p.type \in DOMAIN SFEN_MAP THEN SFEN_MAP[p.type] ELSE "?"
                IN  (IF empty > 0 THEN ToString(empty) ELSE "")
                      \o (IF p.owner = "sente" THEN toUpperCase(char) ELSE char)
                      \o RankSFEN(board, y, x + 1, 0)

RECURSIVE BoardSFEN(_, _)
BoardSFEN(board, y) ==
  IF y > 8 THEN ""
  ELSE RankSFEN(board, y, 0, 0) \o (IF y < 8 THEN "/" ELSE "") \o BoardSFEN(board, y + 1)

\* Object.keys(h).sort(): the keys of a hand in code-unit order
SortedKeys ==
  << "Bishop", "Dragon", "Gold", "Horse", "King", "Knight", "Lance", "Pawn",
     "PromotedKnight", "PromotedLance", "PromotedPawn", "PromotedSilver",
     "Rook", "Silver" >>

RECURSIVE handStr(_, _)
handStr(h, i) ==
  IF i > Len(SortedKeys) THEN ""
  ELSE LET k == SortedKeys[i]
       IN  (IF h[k] > 0 THEN k \o ":" \o ToString(h[k]) ELSE "") \o handStr(h, i + 1)

generateSFEN(board, turn, hands) ==
  BoardSFEN(board, 0) \o " " \o turn
    \o " S:" \o handStr(hands.sente, 1) \o " G:" \o handStr(hands.gote, 1)

(***************************************************************************)
(* index.js: the room record and the helpers of the handlers               *)
(***************************************************************************)

\* rooms.has(roomId) is false
NoRoom == [ status |-> "absent" ]

\* the settings a room is created with
DefaultSettings ==
  [ initial |-> 600, byoyomi |-> 30, randomTurn |-> FALSE, fixTurn |-> FALSE ]

\* an empty object {} used as a map from fingerprints to counts
EmptyObject == [ k \in {} |-> 0 ]

BothFalse == [ sente |-> FALSE, gote |-> FALSE ]

BothNull == [ sente |-> "null", gote |-> "null" ]

\* the room object that join_room puts into the map for a new roomId
NewRoom(mode, now) ==
  [ history |-> << >>,
    board |-> createInitialBoard,
    hands |-> InitialHands,
    sfenHistory |-> EmptyObject,
    status |-> IF mode = "analysis" THEN "analysis" ELSE "waiting",
    winner |-> "null",
    players |-> BothNull,
    userIds |-> BothNull,
    playerNames |-> BothNull,
    ready |-> BothFalse,
    rematchRequests |-> BothFalse,
    settings |-> DefaultSettings,
    times |-> [ sente |-> 600, gote |-> 600 ],
    currentByoyomi |-> [ sente |-> 30, gote |-> 30 ],
    lastMoveTimestamp |-> now,
    totalConsumedTimes |-> [ sente |-> 0, gote |-> 0 ],
    timerInterval |-> "null",
    gameCount |-> 0 ]

\* an outbound event without payload, and the write of the room's snapshot
Emit(name) == [ ev |-> name ]

SaveRoom == [ ev |-> "saveRoom" ]

\* room.history.length % 2 === 0 ? 'sente' : 'gote'
TurnOf(history) == IF Len(history) % 2 = 0 THEN "sente" ELSE "gote"

\* room.sfenHistory[sfen] = (room.sfenHistory[sfen] || 0) + 1
Increment(sfenHistory, sfen) ==
  IF sfen \in DOMAIN sfenHistory
  THEN [ sfenHistory EXCEPT ![sfen] = @ + 1 ]
  ELSE sfenHistory @@ (sfen :> 1)

\* applyMove reads piece.type of the piece on move.from: a TypeError when the
\* square is empty or move.from is not a square of the board
applyMoveThrows(board, move) ==
  /\ ~move.drop
  /\ \/ move.from = Hand
     \/ board[move.from.y][move.from.x] = Null

\* The loops that rebuild a position from a history: applyMove on each entry
\* in turn, from position pos on.  `threw` tells that an applyMove threw and
\* the loop was left; sfens are the fingerprints after each entry applied.
RECURSIVE Replay(_, _, _)
Replay(pos, moves, sfens) ==
  IF moves = << >> THEN [ board |-> pos.board, hands |-> pos.hands, turn |-> pos.turn,
                          threw |-> FALSE, sfens |-> sfens ]
  ELSE IF applyMoveThrows(pos.board, Head(moves))
       THEN [ board |-> pos.board, hands |-> pos.hands, turn |-> pos.turn,
              threw |-> TRUE, sfens |-> sfens ]
       ELSE LET r == applyMove(pos.board, pos.hands, Head(moves), pos.turn)
            IN  Replay(r, Tail(moves),
                       Append(sfens, generateSFEN(r.board, r.turn, r.hands)))

InitialPosition == [ board |-> createInitialBoard, hands |-> InitialHands, turn |-> "sente" ]

ReplayFromStart(moves) == Replay(InitialPosition, moves, << >>)

stopTimer(room) == [ room EXCEPT !.timerInterval = "null" ]

\* A faulty startTimer for sensitivity runs: the closure holds the side that
\* has just moved.
startTimerStale(room) == [ room EXCEPT !.timerInterval = Other(TurnOf(room.history)) ]

\* setInterval with the side to move captured in the closure; the handle is
\* modelled by that side
startTimer(room) == [ room EXCEPT !.timerInterval = TurnOf(room.history) ]

\* the events of sendStatsToPlayer for the two seats
StatsMessages(room) ==
  (IF room.players.sente # "null"
   THEN << [ ev |-> "receive_message", to |-> room.players.sente ] >> ELSE << >>)
  \o (IF room.players.gote # "null"
      THEN << [ ev |-> "receive_message", to |-> room.players.gote ] >> ELSE << >>)

\* A faulty handleGameEnd for sensitivity runs: the statistics go out before
\* the result.
handleGameEndStatsFirst(room, winner, reason) ==
  LET ended == [ stopTimer(room) EXCEPT !.status = "finished", !.winner = winner ]
  IN  [ room |-> ended,
        out  |-> << SaveRoom >> \o StatsMessages(ended)
                 \o << [ ev |-> "game_finished", winner |-> winner, reason |-> reason ] >> ]

\* Another: the interval is left running.
handleGameEndRunning(room, winner, reason) ==
  LET ended == [ room EXCEPT !.status = "finished", !.winner = winner ]
  IN  [ room |-> ended,
        out  |-> << SaveRoom,
                    [ ev |-> "game_finished", winner |-> winner, reason |-> reason ] >>
                 \o StatsMessages(ended) ]

handleGameEnd(room, winner, reason) ==
  LET ended == [ stopTimer(room) EXCEPT !.status = "finished", !.winner = winner ]
  IN  [ room |-> ended,
        out  |-> << SaveRoom,
                    [ ev |-> "game_finished", winner |-> winner, reason |-> reason ] >>
                 \o StatsMessages(ended) ]

(***************************************************************************)
(* index.js: the handlers.  Each is a function of the room, the session    *)
(* map and the event's payload to the room and session map it leaves and   *)
(* the sequence of its outward effects (snapshot writes and emits).        *)
(***************************************************************************)

\* socketUserMap has no entry for the socket
NoUser == [ role |-> "absent" ]

Result(room, users, out) == [ room |-> room, users |-> users, out |-> out ]

\* a result of a handler that changes the room after its last saveRoom:
\* saved is the room that saveRoom saw
ResultSaved(room, users, out, saved) ==
  [ room |-> room, users |-> users, out |-> out, saved |-> saved ]

\* the row saveRoom writes: the room without its timerInterval
saveRoom(room) == [ f \in DOMAIN room \ { "timerInterval" } |-> room[f] ]

\* the handler called saveRoom
Saves(res) ==
  "saved" \in DOMAIN res \/ \E i \in 1..Len(res.out) : res.out[i] = SaveRoom

\* the row of the room after a handler, db being the row before it
Written(res, db) ==
  IF "saved" \in DOMAIN res THEN saveRoom(res.saved)
  ELSE IF \E i \in 1..Len(res.out) : res.out[i] = SaveRoom THEN saveRoom(res.room)
  ELSE db

ONE_DAY == 24 * 60 * 60 * 1000

\* What the callback of the cleanup interval leaves of the room and its row.
\* others: the DELETE removed rows of other rooms.
cleanup(room, db, updatedAt, connected, now, others) ==
  LET oneDayAgo == now - ONE_DAY
      deleted == db # NoRoom /\ updatedAt < oneDayAgo
      changes == deleted \/ others
      evicted ==
        /\ changes
        /\ room # NoRoom
        /\ room.lastMoveTimestamp < oneDayAgo
        /\ connected = { }
  IN  [ db |-> IF deleted THEN NoRoom ELSE db,
        room |-> IF evicted THEN NoRoom ELSE room ]

RECURSIVE CountAll(_, _)
CountAll(sfenHistory, sfens) ==
  IF sfens = << >> THEN sfenHistory
  ELSE CountAll(Increment(sfenHistory, Head(sfens)), Tail(sfens))

InitialSfen == generateSFEN(createInitialBoard, "sente", InitialHands)

\* A faulty join_room for sensitivity runs: a user gets a seat back only
\* while no socket is registered for it.
join_roomSeatTaken(room, users, socket, userId, userName, mode, now) ==
  LET r0 == IF room = NoRoom THEN NewRoom(mode, now) ELSE room
      myRole ==
        CASE r0.userIds.sente = userId /\ r0.players.sente = "null" -> "sente"
          [] r0.userIds.gote = userId /\ r0.players.gote = "null" -> "gote"
          [] r0.userIds.sente = "null" -> "sente"
          [] r0.userIds.gote = "null" -> "gote"
          [] OTHER -> "audience"
      r1 == IF myRole = "audience" THEN r0
            ELSE [ r0 EXCEPT !.userIds[myRole] = userId,
                             !.players[myRole] = socket,
                             !.playerNames[myRole] = userName ]
  IN  Result(r1,
             [ users EXCEPT ![socket] =
                 [ userId |-> userId, userName |-> userName, role |-> myRole ] ],
             << SaveRoom, Emit("receive_message"),
                [ ev |-> "sync", to |-> socket, yourRole |-> myRole ],
                Emit("player_names_updated"), Emit("ready_status"),
                Emit("rematch_status"), Emit("update_room_count"),
                Emit("connection_status_update") >>)

join_room(room, users, socket, userId, userName, mode, now) ==
  LET r0 == IF room = NoRoom THEN NewRoom(mode, now) ELSE room
      myRole ==
        CASE r0.userIds.sente = userId -> "sente"
          [] r0.userIds.gote = userId -> "gote"
          [] r0.userIds.sente = "null" -> "sente"
          [] r0.userIds.gote = "null" -> "gote"
          [] OTHER -> "audience"
      r1 == IF myRole = "audience" THEN r0
            ELSE [ r0 EXCEPT !.userIds[myRole] = userId,
                             !.players[myRole] = socket,
                             !.playerNames[myRole] = userName ]
  IN  Result(r1,
             [ users EXCEPT ![socket] =
                 [ userId |-> userId, userName |-> userName, role |-> myRole ] ],
             << SaveRoom, Emit("receive_message"),
                [ ev |-> "sync", to |-> socket, yourRole |-> myRole ],
                Emit("player_names_updated"), Emit("ready_status"),
                Emit("rematch_status"), Emit("update_room_count"),
                Emit("connection_status_update") >>)

\* A faulty update_settings for sensitivity runs: the status is not asked.
update_settingsAnyStatus(room, users, settings) ==
  IF room # NoRoom
  THEN Result([ room EXCEPT !.settings = settings ], users,
              << SaveRoom, Emit("settings_updated") >>)
  ELSE Result(room, users, << >>)

update_settings(room, users, settings) ==
  IF room # NoRoom /\ room.status = "waiting"
  THEN Result([ room EXCEPT !.settings = settings ], users,
              << SaveRoom, Emit("settings_updated") >>)
  ELSE Result(room, users, << >>)

\* A faulty exchange for sensitivity runs: the display names stay.
SwapSeatsKeepsNames(room) ==
  [ room EXCEPT !.players = [ sente |-> room.players.gote, gote |-> room.players.sente ],
                !.userIds = [ sente |-> room.userIds.gote, gote |-> room.userIds.sente ] ]

\* the exchange of the two seats and of the roles recorded for their sockets
SwapSeats(room) ==
  [ room EXCEPT !.players = [ sente |-> room.players.gote, gote |-> room.players.sente ],
                !.userIds = [ sente |-> room.userIds.gote, gote |-> room.userIds.sente ],
                !.playerNames = [ sente |-> room.playerNames.gote,
                                  gote |-> room.playerNames.sente ] ]

SwapRoles(room, users) ==
  [ s \in DOMAIN users |->
      IF users[s] = NoUser THEN users[s]
      ELSE IF s = room.players.gote THEN [ users[s] EXCEPT !.role = "gote" ]
      ELSE IF s = room.players.sente THEN [ users[s] EXCEPT !.role = "sente" ]
      ELSE users[s] ]

\* the sync each seated socket that is still connected gets after a swap
SwapSyncs(room, users, connected) ==
  LET one(seat) ==
        IF room.players[seat] # "null" /\ room.players[seat] \in connected
        THEN << [ ev |-> "sync", to |-> room.players[seat],
                  yourRole |-> IF users[room.players[seat]] # NoUser
                               THEN users[room.players[seat]].role ELSE "audience" ] >>
        ELSE << >>
  IN  one("sente") \o one("gote") \o << Emit("receive_message") >>

\* A faulty game start for sensitivity runs: the starting position is not
\* counted.
StartGameUnseeded(room, now) ==
  [ stopTimer(room) EXCEPT
      !.history = << >>,
      !.board = createInitialBoard,
      !.hands = InitialHands,
      !.sfenHistory = EmptyObject,
      !.status = "playing",
      !.winner = "null",
      !.ready = BothFalse,
      !.rematchRequests = BothFalse,
      !.times = [ sente |-> room.settings.initial, gote |-> room.settings.initial ],
      !.currentByoyomi = [ sente |-> room.settings.byoyomi, gote |-> room.settings.byoyomi ],
      !.lastMoveTimestamp = now,
      !.totalConsumedTimes = [ sente |-> 0, gote |-> 0 ],
      !.gameCount = @ + 1 ]

\* the fields a game start sets, after the seats are settled
StartGame(room, now) ==
  [ stopTimer(room) EXCEPT
      !.history = << >>,
      !.board = createInitialBoard,
      !.hands = InitialHands,
      !.sfenHistory = Increment(EmptyObject, InitialSfen),
      !.status = "playing",
      !.winner = "null",
      !.ready = BothFalse,
      !.rematchRequests = BothFalse,
      !.times = [ sente |-> room.settings.initial, gote |-> room.settings.initial ],
      !.currentByoyomi = [ sente |-> room.settings.byoyomi, gote |-> room.settings.byoyomi ],
      !.lastMoveTimestamp = now,
      !.totalConsumedTimes = [ sente |-> 0, gote |-> 0 ],
      !.gameCount = @ + 1 ]

\* coin is the outcome of Math.random() < 0.5
toggle_ready(room, users, connected, role, coin, now) ==
  IF room = NoRoom \/ role \notin Sides THEN Result(room, users, << >>)
  ELSE LET r1 == [ room EXCEPT !.ready[role] = ~@ ]
       IN  IF ~(r1.ready.sente /\ r1.ready.gote)
           THEN Result(r1, users, << Emit("ready_status") >>)
           ELSE LET isRematch == r1.gameCount > 0
                    swapped == /\ r1.settings.randomTurn
                               /\ ~(isRematch /\ r1.settings.fixTurn)
                               /\ coin
                    r2 == IF swapped THEN SwapSeats(r1) ELSE r1
                    u2 == IF swapped THEN SwapRoles(r2, users) ELSE users
                    r3 == startTimer(StartGame(r2, now))
                IN  Result(r3, u2,
                           << Emit("ready_status") >>
                           \o (IF swapped THEN SwapSyncs(r2, u2, connected) ELSE << >>)
                           \o << SaveRoom, Emit("game_started"),
                                 IF swapped THEN Emit("player_names_updated")
                                            ELSE Emit("sync"),
                                 Emit("connection_status_update") >>)

\* m.isCheck of a history entry; an entry pushed as the client sent it has none
IsCheckOf(m) == IF "isCheck" \in DOMAIN m THEN m.isCheck ELSE FALSE

\* the positions i of sfens with sfens[i] = sfen, as 0-based history indices,
\* in increasing order
RECURSIVE IndicesOf(_, _, _)
IndicesOf(sfens, sfen, i) ==
  IF i > Len(sfens) THEN << >>
  ELSE (IF sfens[i] = sfen THEN << i - 1 >> ELSE << >>) \o IndicesOf(sfens, sfen, i + 1)

\* A faulty classification for sensitivity runs: every repetition is a draw.
SennichiteDraw(history, sfen) ==
  [ threw |-> FALSE, winner |-> "null", reason |-> "sennichite" ]

\* The classification of a repetition: who wins and for what reason.
\* history is the history with the repeating move pushed, sfen the repeated
\* fingerprint.
Sennichite(history, sfen) ==
  LET replay == ReplayFromStart(history)
      indices == (IF InitialSfen = sfen THEN << -1 >> ELSE << >>)
                   \o IndicesOf(replay.sfens, sfen, 1)
      n == Len(indices)
      \* with fewer than two entries prevIdx is undefined and the loop body never runs
      block == IF n >= 2 THEN (indices[n - 1] + 1)..indices[n] ELSE {}
      senteMoves == { i \in block : i % 2 = 0 }
      goteMoves == { i \in block : i % 2 # 0 }
      hasSenteMove == senteMoves # {}
      hasGoteMove == goteMoves # {}
      senteContinuousCheck == \A i \in senteMoves : IsCheckOf(history[i + 1])
      goteContinuousCheck == \A i \in goteMoves : IsCheckOf(history[i + 1])
  IN  IF replay.threw THEN [ threw |-> TRUE ]
      ELSE IF hasSenteMove /\ senteContinuousCheck
           THEN [ threw |-> FALSE, winner |-> "gote", reason |-> "illegal_sennichite" ]
      ELSE IF hasGoteMove /\ goteContinuousCheck
           THEN [ threw |-> FALSE, winner |-> "sente", reason |-> "illegal_sennichite" ]
      ELSE [ threw |-> FALSE, winner |-> "null", reason |-> "sennichite" ]

\* the branch of the move handler for status analysis or finished
MoveFree(room, users, move, branchIndex) ==
  LET cut == branchIndex # << >> /\ branchIndex[1] < Len(room.history)
      kept == IF cut THEN SubSeq(room.history, 1, branchIndex[1]) ELSE room.history
      replay == ReplayFromStart(kept)
  IN  IF cut /\ replay.threw
      THEN Result([ room EXCEPT !.history = kept ], users, << >>)
      ELSE LET r1 == IF cut
                     THEN [ room EXCEPT !.history = kept, !.board = replay.board,
                                        !.hands = replay.hands ]
                     ELSE room
           IN  Result([ r1 EXCEPT !.history = Append(@, move) ], users,
                      << SaveRoom, Emit("sync") >>)

Floor1000(ms) == ms \div 1000

\* the branch of the move handler for status playing, the move being valid
MovePlaying(room, users, move, now) ==
  LET currentTurn == TurnOf(room.history)
      nextTurn == Other(currentTurn)
      spentTimeMs == now - room.lastMoveTimestamp
      spentSecondsForTimer == Floor1000(spentTimeMs)
      res == applyMove(room.board, room.hands, move, currentTurn)
      isCheck == isKingInCheck(res.board, nextTurn)
      total == room.totalConsumedTimes[currentTurn] + spentTimeMs
      moveWithInfo ==
        [ from |-> move.from, to |-> move.to, piece |-> move.piece, drop |-> move.drop,
          isPromoted |-> move.isPromoted, isCheck |-> isCheck,
          time |-> [ now |-> spentSecondsForTimer, total |-> Floor1000(total) ] ]
      r1 == [ stopTimer(room) EXCEPT
                !.times[currentTurn] =
                   IF @ > 0 THEN Max(0, @ - spentSecondsForTimer) ELSE @,
                !.totalConsumedTimes[currentTurn] = total,
                !.lastMoveTimestamp = now,
                !.board = res.board,
                !.hands = res.hands,
                !.currentByoyomi[currentTurn] = room.settings.byoyomi,
                !.history = Append(@, moveWithInfo) ]
      moved == << SaveRoom, [ ev |-> "move", move |-> moveWithInfo ] >>
      sfen == generateSFEN(r1.board, nextTurn, r1.hands)
      r2 == [ r1 EXCEPT !.sfenHistory = Increment(@, sfen) ]
  IN  IF isCheckmate(r1.board, r1.hands, nextTurn)
      THEN LET e == handleGameEnd(r1, currentTurn, "checkmate")
           IN  Result(e.room, users, moved \o e.out)
      ELSE IF r2.sfenHistory[sfen] >= 4
      THEN LET r3 == [ stopTimer(r2) EXCEPT !.status = "finished" ]
               verdict == Sennichite(r3.history, sfen)
           IN  IF verdict.threw THEN ResultSaved(r3, users, moved, r1)
               ELSE LET e == handleGameEnd(r3, verdict.winner, verdict.reason)
                    IN  Result(e.room, users, moved \o e.out)
      ELSE ResultSaved(startTimer(r2), users, moved, r1)

\* A faulty move handler for sensitivity runs: it does not ask isValidMove.
OnMoveUnchecked(room, users, move, branchIndex, now) ==
  IF room = NoRoom THEN Result(room, users, << >>)
  ELSE IF room.status \in { "analysis", "finished" }
       THEN MoveFree(room, users, move, branchIndex)
  ELSE IF room.status = "playing" /\ ~applyMoveThrows(room.board, move)
       THEN MovePlaying(room, users, move, now)
  ELSE Result(stopTimer(room), users, << >>)

\* socket.on("move"); branchIndex is << n >> for the number n and << >> for a
\* payload without one
OnMove(room, users, move, branchIndex, now) ==
  IF room = NoRoom THEN Result(room, users, << >>)
  ELSE IF room.status \in { "analysis", "finished" }
       THEN MoveFree(room, users, move, branchIndex)
  ELSE IF ~isValidMove(room.board, room.hands, TurnOf(room.history), move, TRUE)
       THEN Result(room, users, << >>)
  ELSE IF room.status = "playing"
       THEN MovePlaying(room, users, move, now)
  ELSE Result(stopTimer(room), users, << >>)

\* A faulty resignation for sensitivity runs: the named seat wins.
game_resignLoserWins(room, users, loser) ==
  IF room = NoRoom THEN Result(room, users, << >>)
  ELSE LET e == handleGameEnd(room, loser, "resign")
       IN  Result(e.room, users, e.out)

game_resign(room, users, loser) ==
  IF room = NoRoom THEN Result(room, users, << >>)
  ELSE LET e == handleGameEnd(room, IF loser = "sente" THEN "gote" ELSE "sente", "resign")
       IN  Result(e.room, users, e.out)

undo(room, users) ==
  IF room # NoRoom /\ room.status # "playing" /\ Len(room.history) > 0
  THEN LET kept == SubSeq(room.history, 1, Len(room.history) - 1)
           replay == ReplayFromStart(kept)
           r1 == [ room EXCEPT
                     !.history = kept,
                     !.sfenHistory = CountAll(Increment(EmptyObject, InitialSfen),
                                              replay.sfens) ]
       IN  IF replay.threw THEN Result(r1, users, << >>)
           ELSE Result([ r1 EXCEPT !.board = replay.board, !.hands = replay.hands ],
                       users, << SaveRoom, Emit("sync") >>)
  ELSE Result(room, users, << >>)

reset(room, users) ==
  IF room = NoRoom THEN Result(room, users, << >>)
  ELSE Result([ stopTimer(room) EXCEPT
                  !.history = << >>,
                  !.board = createInitialBoard,
                  !.hands = InitialHands,
                  !.sfenHistory = EmptyObject,
                  !.winner = "null",
                  !.ready = BothFalse,
                  !.rematchRequests = BothFalse,
                  !.times = [ sente |-> room.settings.initial,
                              gote |-> room.settings.initial ],
                  !.gameCount = 0 ],
              users, << SaveRoom, Emit("sync") >>)

\* A faulty rematch for sensitivity runs: one request is enough.
rematchEither(room, users, role, now) ==
  IF room = NoRoom \/ role \notin Sides THEN Result(room, users, << >>)
  ELSE Result([ stopTimer(room) EXCEPT
                  !.history = << >>,
                  !.board = createInitialBoard,
                  !.hands = InitialHands,
                  !.sfenHistory = EmptyObject,
                  !.status = "waiting",
                  !.winner = "null",
                  !.ready = BothFalse,
                  !.rematchRequests = BothFalse,
                  !.times = [ sente |-> room.settings.initial,
                              gote |-> room.settings.initial ],
                  !.currentByoyomi = [ sente |-> room.settings.byoyomi,
                                       gote |-> room.settings.byoyomi ],
                  !.lastMoveTimestamp = now,
                  !.totalConsumedTimes = [ sente |-> 0, gote |-> 0 ] ],
              users, << Emit("rematch_status"), SaveRoom, Emit("sync") >>)

\* Another: the reset of a rematch leaves the winner of the game before.
rematchKeepsWinner(room, users, role, now) ==
  IF room = NoRoom \/ role \notin Sides THEN Result(room, users, << >>)
  ELSE LET r1 == [ room EXCEPT !.rematchRequests[role] = TRUE ]
       IN  IF ~(r1.rematchRequests.sente /\ r1.rematchRequests.gote)
           THEN Result(r1, users, << Emit("rematch_status") >>)
           ELSE Result([ stopTimer(r1) EXCEPT
                           !.history = << >>,
                           !.board = createInitialBoard,
                           !.hands = InitialHands,
                           !.sfenHistory = EmptyObject,
                           !.status = "waiting",
                           !.ready = BothFalse,
                           !.rematchRequests = BothFalse,
                           !.times = [ sente |-> room.settings.initial,
                                       gote |-> room.settings.initial ],
                           !.currentByoyomi = [ sente |-> room.settings.byoyomi,
                                                gote |-> room.settings.byoyomi ],
                           !.lastMoveTimestamp = now,
                           !.totalConsumedTimes = [ sente |-> 0, gote |-> 0 ] ],
                       users, << Emit("rematch_status"), SaveRoom, Emit("sync") >>)

rematch(room, users, role, now) ==
  IF room = NoRoom \/ role \notin Sides THEN Result(room, users, << >>)
  ELSE LET r1 == [ room EXCEPT !.rematchRequests[role] = TRUE ]
       IN  IF ~(r1.rematchRequests.sente /\ r1.rematchRequests.gote)
           THEN Result(r1, users, << Emit("rematch_status") >>)
           ELSE Result([ stopTimer(r1) EXCEPT
                           !.history = << >>,
                           !.board = createInitialBoard,
                           !.hands = InitialHands,
                           !.sfenHistory = EmptyObject,
                           !.status = "waiting",
                           !.winner = "null",
                           !.ready = BothFalse,
                           !.rematchRequests = BothFalse,
                           !.times = [ sente |-> room.settings.initial,
                                       gote |-> room.settings.initial ],
                           !.currentByoyomi = [ sente |-> room.settings.byoyomi,
                                                gote |-> room.settings.byoyomi ],
                           !.lastMoveTimestamp = now,
                           !.totalConsumedTimes = [ sente |-> 0, gote |-> 0 ] ],
                       users, << Emit("rematch_status"), SaveRoom, Emit("sync") >>)

\* A faulty disconnect for sensitivity runs: the seat of the leaver is vacated.
disconnectVacates(room, users, socket) ==
  IF users[socket] = NoUser THEN Result(room, users, << >>)
  ELSE LET role == users[socket].role
           u1 == [ users EXCEPT ![socket] = NoUser ]
           seated == room # NoRoom /\ role \in Sides
           r1 == IF seated
                 THEN [ room EXCEPT !.rematchRequests[role] = FALSE, !.ready[role] = FALSE,
                                    !.userIds[role] = "null", !.players[role] = "null" ]
                 ELSE room
       IN  Result(r1, u1,
                  << Emit("update_room_count"), Emit("connection_status_update"),
                     Emit("receive_message") >>)

disconnect(room, users, socket) ==
  IF users[socket] = NoUser THEN Result(room, users, << >>)
  ELSE LET role == users[socket].role
           u1 == [ users EXCEPT ![socket] = NoUser ]
           seated == room # NoRoom /\ role \in Sides
           hadRematch == seated /\ room.rematchRequests[role]
           hadReady == seated /\ room.ready[role]
           r1 == IF hadRematch THEN [ room EXCEPT !.rematchRequests[role] = FALSE ] ELSE room
           r2 == IF hadReady THEN [ r1 EXCEPT !.ready[role] = FALSE ] ELSE r1
       IN  Result(r2, u1,
                  << Emit("update_room_count"), Emit("connection_status_update"),
                     Emit("receive_message") >>
                  \o (IF hadRematch THEN << Emit("rematch_status") >> ELSE << >>)
                  \o (IF hadReady THEN << Emit("ready_status") >> ELSE << >>))

\* Faulty callbacks for sensitivity runs: one ends the game a second early,
\* one only displays the time.
tickEarly(room, users, now) ==
  LET turn == room.timerInterval
      elapsedSeconds == Floor1000(now - room.lastMoveTimestamp)
      currentRemaining == room.times[turn] - elapsedSeconds
      remainingByoyomi == room.settings.byoyomi + currentRemaining
  IN  IF ~(currentRemaining > 0) /\ remainingByoyomi <= 0
      THEN LET e == handleGameEnd(room, IF turn = "sente" THEN "gote" ELSE "sente", "timeout")
           IN  Result(e.room, users, e.out)
      ELSE Result(room, users, << Emit("time_update") >>)

tickDisplayOnly(room, users, now) == Result(room, users, << Emit("time_update") >>)

\* the callback of setInterval in startTimer; turn is the side the closure holds
tick(room, users, now) ==
  LET turn == room.timerInterval
      elapsedTotalMs == now - room.lastMoveTimestamp
      elapsedSeconds == Floor1000(elapsedTotalMs)
      currentRemaining == room.times[turn] - elapsedSeconds
      overTime == -currentRemaining
      remainingByoyomi == room.settings.byoyomi - overTime
  IN  IF ~(currentRemaining > 0) /\ remainingByoyomi <= -1
      THEN LET e == handleGameEnd(room, IF turn = "sente" THEN "gote" ELSE "sente", "timeout")
           IN  Result(e.room, users, e.out)
      ELSE Result(room, users, << Emit("time_update") >>)

(***************************************************************************)
(* The server file that pauses the clock while a player is away            *)
(* (src/unnamed/part_000, lines 1-727).  Its definitions carry the suffix  *)
(* _p where the name is taken; what it shares with index.js (update_       *)
(* settings, undo, the analysis branch of move, the repetition verdict) is *)
(* used as it is.                                                          *)
(***************************************************************************)

\* A faulty updateRoomTime for sensitivity runs: it adds the whole seconds,
\* not the milliseconds, to the consumed time.
updateRoomTimeSeconds(room, now) ==
  IF room.status # "playing" THEN room
  ELSE LET turn == TurnOf(room.history)
           elapsedSeconds == Floor1000(now - room.lastMoveTimestamp)
       IN  [ room EXCEPT
               !.totalConsumedTimes[turn] = @ + elapsedSeconds,
               !.times[turn] = Max(0, @ - elapsedSeconds),
               !.lastMoveTimestamp = now ]

\* Another: it overwrites the consumed time with the time elapsed.
updateRoomTimeOverwrite(room, now) ==
  IF room.status # "playing" THEN room
  ELSE LET turn == TurnOf(room.history)
           elapsedTotalMs == now - room.lastMoveTimestamp
           elapsedSeconds == Floor1000(elapsedTotalMs)
       IN  [ room EXCEPT
               !.totalConsumedTimes[turn] = elapsedTotalMs,
               !.times[turn] = Max(0, @ - elapsedSeconds),
               !.lastMoveTimestamp = now ]

\* the elapsed time of the side to move is written into the room
updateRoomTime(room, now) ==
  IF room.status # "playing" THEN room
  ELSE LET turn == TurnOf(room.history)
           elapsedTotalMs == now - room.lastMoveTimestamp
           elapsedSeconds == Floor1000(elapsedTotalMs)
           remaining == room.times[turn] - elapsedSeconds
           overTime == -remaining
           remainingByoyomi == room.settings.byoyomi - elapsedSeconds
           r1 == [ room EXCEPT !.totalConsumedTimes[turn] = @ + elapsedTotalMs ]
           r2 == IF r1.times[turn] > 0
                 THEN IF remaining > 0
                      THEN [ r1 EXCEPT !.times[turn] = remaining ]
                      ELSE [ r1 EXCEPT
                               !.times[turn] = 0,
                               !.currentByoyomi[turn] =
                                  Max(0, room.settings.byoyomi - overTime) ]
                 ELSE [ r1 EXCEPT !.currentByoyomi[turn] = Max(0, remainingByoyomi) ]
       IN  [ r2 EXCEPT !.lastMoveTimestamp = now ]

\* stopTimer(room, save): the room it leaves ...
stopTimer_p(room, now) ==
  IF room.timerInterval # "null"
  THEN [ updateRoomTime(room, now) EXCEPT !.timerInterval = "null" ]
  ELSE room

\* ... and the snapshot it writes when save is set and a timer ran
stopTimerSaves(room, save) ==
  IF room.timerInterval # "null" /\ save THEN << SaveRoom >> ELSE << >>

startTimer_p(room, now) ==
  [ room EXCEPT !.lastMoveTimestamp = now, !.timerInterval = TurnOf(room.history) ]

handleGameEnd_p(room, winner, reason, now) ==
  LET ended == [ stopTimer_p(room, now) EXCEPT !.status = "finished", !.winner = winner ]
  IN  [ room |-> ended,
        out  |-> stopTimerSaves(room, TRUE)
                 \o << SaveRoom,
                       [ ev |-> "game_finished", winner |-> winner, reason |-> reason ] >>
                 \o StatsMessages(ended) ]

\* io.sockets.sockets.has(room.players[seat]) for an occupied seat
IsOnline(room, connected, seat) ==
  room.players[seat] # "null" /\ room.players[seat] \in connected

\* connected holds the joining socket
join_room_p(room, users, connected, socket, userId, userName, mode, now) ==
  LET j == join_room(room, users, socket, userId, userName, mode, now)
  IN  IF j.room.status = "playing" /\ j.room.timerInterval = "null"
      THEN IF IsOnline(j.room, connected, "sente") /\ IsOnline(j.room, connected, "gote")
           THEN ResultSaved(startTimer_p(j.room, now), j.users,
                            j.out \o << Emit("receive_message") >>, j.room)
           ELSE Result(j.room, j.users,
                       j.out \o << [ ev |-> "receive_message", to |-> socket ] >>)
      ELSE j

toggle_ready_p(room, users, connected, role, coin, now) ==
  IF room = NoRoom \/ role \notin Sides THEN Result(room, users, << >>)
  ELSE LET r1 == [ room EXCEPT !.ready[role] = ~@ ]
       IN  IF ~(r1.ready.sente /\ r1.ready.gote)
           THEN Result(r1, users, << Emit("ready_status") >>)
           ELSE LET isRematch == r1.gameCount > 0
                    swapped == /\ r1.settings.randomTurn
                               /\ ~(isRematch /\ r1.settings.fixTurn)
                               /\ coin
                    r2 == IF swapped THEN SwapSeats(r1) ELSE r1
                    u2 == IF swapped THEN SwapRoles(r2, users) ELSE users
                    started == StartGame(stopTimer_p(r2, now), now)
                    r3 == startTimer_p(started, now)
                IN  ResultSaved(r3, u2,
                           << Emit("ready_status") >>
                           \o (IF swapped THEN SwapSyncs(r2, u2, connected) ELSE << >>)
                           \o stopTimerSaves(r2, TRUE)
                           \o << SaveRoom, Emit("game_started"),
                                 IF swapped THEN Emit("player_names_updated")
                                            ELSE Emit("sync"),
                                 Emit("connection_status_update") >>,
                           started)

\* the branch of the move handler for status playing, the move being valid
\* and stopTimer(room, false) done
MovePlaying_p(room, users, move, now) ==
  LET currentTurn == TurnOf(room.history)
      nextTurn == Other(currentTurn)
      res == applyMove(room.board, room.hands, move, currentTurn)
      isCheck == isKingInCheck(res.board, nextTurn)
      moveWithInfo ==
        [ from |-> move.from, to |-> move.to, piece |-> move.piece, drop |-> move.drop,
          isPromoted |-> move.isPromoted, isCheck |-> isCheck,
          time |-> [ now |-> 0,
                     total |-> Floor1000(room.totalConsumedTimes[currentTurn]) ] ]
      r1 == [ room EXCEPT
                !.board = res.board,
                !.hands = res.hands,
                !.currentByoyomi[currentTurn] = room.settings.byoyomi,
                !.history = Append(@, moveWithInfo) ]
      moved == << SaveRoom, [ ev |-> "move", move |-> moveWithInfo ] >>
      sfen == generateSFEN(r1.board, nextTurn, r1.hands)
      r2 == [ r1 EXCEPT !.sfenHistory = Increment(@, sfen) ]
  IN  IF isCheckmate(r1.board, r1.hands, nextTurn)
      THEN LET e == handleGameEnd_p(r1, currentTurn, "checkmate", now)
           IN  Result(e.room, users, moved \o e.out)
      ELSE IF r2.sfenHistory[sfen] >= 4
      THEN LET r3 == [ stopTimer_p(r2, now) EXCEPT !.status = "finished" ]
               verdict == Sennichite(r3.history, sfen)
           IN  IF verdict.threw THEN ResultSaved(r3, users, moved, r1)
               ELSE LET e == handleGameEnd_p(r3, verdict.winner, verdict.reason, now)
                    IN  Result(e.room, users, moved \o e.out)
      ELSE ResultSaved(startTimer_p(r2, now), users, moved, r1)

OnMove_p(room, users, move, branchIndex, now) ==
  IF room = NoRoom THEN Result(room, users, << >>)
  ELSE IF room.status \in { "analysis", "finished" }
       THEN MoveFree(room, users, move, branchIndex)
  ELSE IF ~isValidMove(room.board, room.hands, TurnOf(room.history), move, TRUE)
       THEN Result(room, users, << >>)
  ELSE IF room.status = "playing"
       THEN MovePlaying_p(stopTimer_p(room, now), users, move, now)
  ELSE Result(stopTimer_p(room, now), users, << >>)

game_resign_p(room, users, loser, now) ==
  IF room = NoRoom THEN Result(room, users, << >>)
  ELSE LET e == handleGameEnd_p(room, IF loser = "sente" THEN "gote" ELSE "sente",
                                "resign", now)
       IN  Result(e.room, users, e.out)

\* stopTimer(room) and then the assignments of reset in index.js
reset_p(room, users, now) ==
  IF room = NoRoom THEN Result(room, users, << >>)
  ELSE LET r == reset(stopTimer_p(room, now), users)
       IN  Result(r.room, r.users, stopTimerSaves(room, TRUE) \o r.out)

\* as rematch in index.js; the stopTimer of the reset writes the snapshot
\* once more when a timer ran, and what it commits is overwritten
rematch_p(room, users, role, now) ==
  LET r == rematch(room, users, role, now)
  IN  IF Len(r.out) = 3
      THEN Result(r.room, r.users,
                  << r.out[1] >> \o stopTimerSaves(room, TRUE) \o << r.out[2], r.out[3] >>)
      ELSE r

disconnect_p(room, users, socket, now) ==
  IF users[socket] = NoUser THEN Result(room, users, << >>)
  ELSE LET role == users[socket].role
           u1 == [ users EXCEPT ![socket] = NoUser ]
           seated == room # NoRoom /\ role \in Sides
           pauses == seated /\ room.status = "playing"
           r0 == IF pauses THEN stopTimer_p(room, now) ELSE room
           hadRematch == seated /\ r0.rematchRequests[role]
           hadReady == seated /\ r0.ready[role]
           r1 == IF hadRematch THEN [ r0 EXCEPT !.rematchRequests[role] = FALSE ] ELSE r0
           r2 == IF hadReady THEN [ r1 EXCEPT !.ready[role] = FALSE ] ELSE r1
           out == << Emit("update_room_count"), Emit("connection_status_update"),
                     Emit("receive_message") >>
                  \o (IF pauses
                      THEN stopTimerSaves(room, TRUE) \o << Emit("receive_message") >>
                      ELSE << >>)
                  \o (IF hadRematch THEN << Emit("rematch_status") >> ELSE << >>)
                  \o (IF hadReady THEN << Emit("ready_status") >> ELSE << >>)
       IN  IF pauses /\ stopTimerSaves(room, TRUE) # << >>
           THEN ResultSaved(r2, u1, out, r0)
           ELSE Result(r2, u1, out)

\* the callback of setInterval in startTimer; turn is the side the closure holds
tick_p(room, users, now) ==
  LET turn == room.timerInterval
      elapsedTotalMs == now - room.lastMoveTimestamp
      elapsedSeconds == Floor1000(elapsedTotalMs)
      currentRemaining == room.times[turn] - elapsedSeconds
      overTime == -currentRemaining
      remainingByoyomi == room.settings.byoyomi - overTime
  IN  IF ~(currentRemaining > 0) /\ remainingByoyomi <= -1
      THEN LET e == handleGameEnd_p(room, IF turn = "sente" THEN "gote" ELSE "sente",
                                    "timeout", now)
           IN  Result(e.room, users, e.out)
      ELSE Result(room, users, << Emit("time_update") >>)

(***************************************************************************)
(* The clients and the wall clock.  Events arrive one at a time; a handler *)
(* and a timer callback each run to completion (one thread).               *)
(***************************************************************************)

\* games a room counts before no further game is started
MaxGames == 2
\* history entries pushed as sent (outside playing) that a history may hold
MaxRaw == 1
\* the largest branchIndex a client sends
MaxBranch == 1
\* history entries a study (a room in analysis mode) may hold
MaxStudy == 3

\* the step of the time in the idle script, and its end
DayStep == 43200000
MaxDays == 172800000
\* milliseconds the wall clock advances by in one step
TimeStep == 500
\* the wall clock's last instant
MaxTime == 4500
\* the last instant at which a client sends an event
EventDeadline == 1000
\* the same where players leave and come back during a game
PauseDeadline == 2000

Sockets == { "s1", "s2", "s3" }

UserOf(s) == CASE s = "s1" -> "u1" [] s = "s2" -> "u2" [] OTHER -> "u3"

NameOf(s) == CASE s = "s1" -> "A" [] s = "s2" -> "B" [] OTHER -> "C"

Mv(fx, fy, tx, ty, p, pr) ==
  [ from |-> [ x |-> fx, y |-> fy ], to |-> [ x |-> tx, y |-> ty ], piece |-> p,
    drop |-> FALSE, isPromoted |-> pr ]

Dr(tx, ty, p) ==
  [ from |-> Hand, to |-> [ x |-> tx, y |-> ty ], piece |-> p, drop |-> TRUE,
    isPromoted |-> FALSE ]

\* What the clients of a run do.
\*   seats: three sockets come and go, settings change, ready and rematch
\*          flags are set and games resigned in any status; nobody moves a
\*          piece
\*   lobby: two sockets send any event in any status, either of them the
\*          moves: one pawn push and a drop of a pawn nobody holds
\*   clock: two players set a short time control and play one pawn push
\*          each while time passes
\*   draw, perp, gperp, mate: two players play a line to its end; after
\*          the mate the pawn drop is still sent
\*   pause: (the server file with the pause) two players set the short time
\*          control and play while time passes; the first leaves and comes
\*          back, also on a second socket while the old one is open;
\*          the events come in the status they are meant for, reset during
\*          the game
\*   study: one socket opens a room in analysis mode and sends the moves of
\*          the lobby, undo and reset
\*   idle:  (the run with the hourly cleanup) two sockets join and leave a
\*          room nobody plays in and set its time control, while days pass
\*   rules: (the rules alone) the side to move sends moves and drops, also
\*          with a piece kind or a promotion that is not true, in the
\*          initial position and in two endgames
\* In clock, draw, perp, gperp and mate the players ready up while waiting, move and resign
\* while playing and ask for a rematch when finished; undo and reset come
\* in any status.
Scripts == { "seats", "lobby", "clock", "draw", "perp", "gperp", "mate", "study" }

Wild(script) == script \in { "seats", "lobby" }

\* the moves the players open with, one after the other
Prelude(script) ==
  CASE script = "perp" ->
         << Mv(2, 6, 2, 5, "Pawn", FALSE), Mv(5, 0, 4, 1, "Gold", FALSE),
            Mv(1, 7, 6, 2, "Bishop", TRUE), Mv(4, 0, 5, 0, "King", FALSE) >>
    [] script = "gperp" ->
         << Mv(3, 8, 4, 7, "Gold", FALSE), Mv(6, 2, 6, 3, "Pawn", FALSE),
            Mv(8, 6, 8, 5, "Pawn", FALSE), Mv(7, 1, 2, 6, "Bishop", TRUE),
            Mv(4, 8, 3, 8, "King", FALSE) >>
    [] script = "mate" ->
         << Mv(2, 6, 2, 5, "Pawn", FALSE), Mv(3, 0, 2, 1, "Gold", FALSE),
            Mv(1, 7, 6, 2, "Bishop", FALSE), Mv(5, 0, 5, 1, "Gold", FALSE),
            Mv(6, 2, 5, 1, "Bishop", TRUE), Mv(4, 0, 3, 0, "King", FALSE),
            Dr(4, 1, "Gold") >>
    [] OTHER -> << >>

\* the moves they choose from afterwards
Alphabet(script) ==
  CASE script = "draw" ->
         { Mv(4, 8, 4, 7, "King", FALSE), Mv(4, 7, 4, 8, "King", FALSE),
           Mv(4, 0, 4, 1, "King", FALSE), Mv(4, 1, 4, 0, "King", FALSE) }
    [] script = "perp" ->
         { Mv(6, 2, 4, 0, "Horse", FALSE), Mv(5, 0, 6, 1, "King", FALSE),
           Mv(4, 0, 6, 2, "Horse", FALSE), Mv(6, 1, 5, 0, "King", FALSE) }
    [] script = "gperp" ->
         { Mv(2, 6, 4, 8, "Horse", FALSE), Mv(3, 8, 2, 7, "King", FALSE),
           Mv(4, 8, 2, 6, "Horse", FALSE), Mv(2, 7, 3, 8, "King", FALSE) }
    [] script = "mate" -> { Dr(4, 2, "Pawn") }
    [] script \in { "clock", "pause" } ->
         { Mv(8, 6, 8, 5, "Pawn", FALSE), Mv(0, 2, 0, 3, "Pawn", FALSE) }
    [] OTHER -> { Mv(8, 6, 8, 5, "Pawn", FALSE), Dr(4, 2, "Pawn") }

Offered(script, history) ==
  IF Len(history) < Len(Prelude(script))
  THEN { Prelude(script)[Len(history) + 1] }
  ELSE Alphabet(script)

SettingsOf(script) ==
  CASE script = "seats" ->
         { [ initial |-> 600, byoyomi |-> 30, randomTurn |-> TRUE, fixTurn |-> FALSE ],
           [ initial |-> 600, byoyomi |-> 30, randomTurn |-> TRUE, fixTurn |-> TRUE ] }
    [] script \in { "clock", "pause", "study" } ->
         { [ initial |-> 1, byoyomi |-> 1, randomTurn |-> FALSE, fixTurn |-> FALSE ] }
    [] script = "idle" ->
         { [ initial |-> 600, byoyomi |-> 30, randomTurn |-> FALSE, fixTurn |-> FALSE ] }
    [] OTHER -> { }

RawCount(history) ==
  Cardinality({ i \in 1..Len(history) : "isCheck" \notin DOMAIN history[i] })
\* no game is followed by its rules alone; no move has been tried
NoPosition == [ turn |-> "none" ]

NoTry == [ turn |-> "none" ]

VARIABLES
  room,       \* rooms.get(roomId), or NoRoom before the first join
  users,      \* socketUserMap
  connected,  \* the sockets io.sockets.sockets holds
  now,        \* Date.now()
  script,     \* what the clients of this run do
  event,      \* the event or callback handled last
  emitted,    \* what the handler of that event saved and emitted, in order
  db,         \* the row of the room in the table rooms, or NoRoom without one;
              \* followed in the runs of the scripts that are not wild
  updated_at, \* the column updated_at of that row
  position,   \* board, hands and side to move of a game followed by its rules
              \* alone (the rules script); NoPosition in the other scripts
  tried       \* the move isValidMove was last asked about in that game, with
              \* the position it was asked in and the two answers

vars ==
  << room, users, connected, now, script, event, emitted, db, updated_at,
     position, tried >>

Init ==
  /\ room = NoRoom
  /\ users = [ s \in Sockets |-> NoUser ]
  /\ connected = { }
  /\ now = 0
  /\ script \in Scripts
  /\ event = [ ev |-> "none" ]
  /\ emitted = << >>
  /\ db = NoRoom
  /\ updated_at = 0
  /\ position = NoPosition
  /\ tried = NoTry

\* a handler ran: its result becomes the state
Handled(res, ev) ==
  /\ room' = res.room
  /\ users' = res.users
  /\ emitted' = res.out
  /\ db' = IF Wild(script) THEN db ELSE Written(res, db)
  /\ updated_at' = IF ~Wild(script) /\ Saves(res) THEN now ELSE updated_at
  /\ event' = ev
  /\ UNCHANGED << now, script, position, tried >>

Listening == now <= IF script = "pause" THEN PauseDeadline ELSE EventDeadline
\* A socket connects and joins the room: s1, then s2, then the spectator.
Join ==
  \E s \in Sockets \ connected, mode \in { "game", "analysis" } :
    /\ Listening
    /\ script \in { "lobby", "study" } \/ mode = "game"
    /\ script = "study" => ( mode = "analysis" /\ s = "s1" )
    /\ room # NoRoom => mode = "game"
    /\ \/ s = "s1"
       \/ s = "s2" /\ "s1" \in connected
       \/ s = "s3" /\ { "s1", "s2" } \subseteq connected /\ script = "seats"
    /\ connected' = connected \cup { s }
    /\ Handled(join_room(room, users, s, UserOf(s), NameOf(s), mode, now),
               [ ev |-> "join_room", socket |-> s ])

UpdateSettings ==
  \E settings \in SettingsOf(script) :
    /\ Listening
    /\ room # NoRoom
    /\ UNCHANGED connected
    /\ Handled(update_settings(room, users, settings),
               [ ev |-> "update_settings", settings |-> settings ])

ToggleReady ==
  \E role \in Sides, coin \in BOOLEAN :
    /\ Listening
    /\ room # NoRoom
    /\ Wild(script) \/ room.status = "waiting"
    /\ script = "clock" => room.settings \in SettingsOf(script)
    /\ room.gameCount < MaxGames \/ ~room.ready[Other(role)] \/ room.ready[role]
    /\ UNCHANGED connected
    /\ Handled(toggle_ready(room, users, connected, role, coin, now),
               [ ev |-> "toggle_ready", role |-> role ])

\* the branchIndex values a client sends with a move
BranchChoices(status) ==
  IF status \in { "analysis", "finished" }
  THEN { << >> } \cup { << i >> : i \in 0..MaxBranch }
  ELSE { << >> }

Move ==
  /\ Listening
  /\ room # NoRoom
  /\ script # "seats"
  /\ script \notin { "lobby", "mate", "study" } => room.status = "playing"
  /\ room.status \in { "analysis", "finished" }
       => RawCount(room.history) < IF script = "study" THEN MaxStudy ELSE MaxRaw
  /\ \E s \in connected, move \in Offered(script, room.history),
        branchIndex \in BranchChoices(room.status) :
       /\ Wild(script) \/ script = "study" \/ s = room.players[TurnOf(room.history)]
       /\ UNCHANGED connected
       /\ Handled(OnMove(room, users, move, branchIndex, now),
                  [ ev |-> "move", socket |-> s, move |-> move ])

Resign ==
  \E loser \in Sides :
    /\ Listening
    /\ room # NoRoom
    /\ Wild(script) \/ room.status = "playing"
    /\ UNCHANGED connected
    /\ Handled(game_resign(room, users, loser), [ ev |-> "game_resign", loser |-> loser ])

Undo ==
  /\ Listening
  /\ room # NoRoom
  /\ script # "seats"
  /\ UNCHANGED connected
  /\ Handled(undo(room, users), [ ev |-> "undo" ])

Reset ==
  /\ Listening
  /\ room # NoRoom
  /\ script # "seats"
  /\ UNCHANGED connected
  /\ Handled(reset(room, users), [ ev |-> "reset" ])

Rematch ==
  \E role \in Sides :
    /\ Listening
    /\ room # NoRoom
    /\ Wild(script) \/ room.status = "finished"
    /\ UNCHANGED connected
    /\ Handled(rematch(room, users, role, now), [ ev |-> "rematch", role |-> role ])

Disconnect ==
  \E s \in connected :
    /\ Listening
    /\ script = "seats" /\ s # "s1"
    /\ connected' = connected \ { s }
    /\ Handled(disconnect(room, users, s), [ ev |-> "disconnect", socket |-> s ])

\* the interval of startTimer fires
Tick ==
  /\ room # NoRoom
  /\ room.timerInterval # "null"
  /\ UNCHANGED connected
  /\ Handled(tick(room, users, now), [ ev |-> "tick" ])

\* time passes; under the pause script it is followed during the games only
Advance ==
  /\ script \in { "clock", "pause" }
  /\ script = "pause" => ( room # NoRoom /\ room.status = "playing" )
  /\ now + TimeStep <= MaxTime
  /\ now' = now + TimeStep
  /\ event' = [ ev |-> "time" ]
  /\ emitted' = << >>
  /\ UNCHANGED << room, users, connected, script, db, updated_at, position, tried >>

Next ==
  \/ Join
  \/ UpdateSettings
  \/ ToggleReady
  \/ Move
  \/ Resign
  \/ Undo
  \/ Reset
  \/ Rematch
  \/ Disconnect
  \/ Tick
  \/ Advance

Spec == Init /\ [][Next]_vars

\* The run in which time passes: the clock script alone, with the events its
\* clients send.  The interval keeps firing and time keeps passing.
InitClock == Init /\ script = "clock"

NextClock ==
  \/ Join
  \/ UpdateSettings
  \/ ToggleReady
  \/ Move
  \/ Resign
  \/ Undo
  \/ Reset
  \/ Rematch
  \/ Tick
  \/ Advance

SpecClock == InitClock /\ [][NextClock]_vars /\ WF_vars(Tick) /\ WF_vars(Advance)

(***************************************************************************)
(* The server file with the pause, under the pause script.  Socket s3 is   *)
(* here a second session of the user of s1.                                *)
(***************************************************************************)
PauseUserOf(s) == IF s = "s2" THEN "u2" ELSE "u1"

PauseNameOf(s) == IF s = "s2" THEN "B" ELSE "A"

InitPause ==
  /\ room = NoRoom
  /\ users = [ s \in Sockets |-> NoUser ]
  /\ connected = { }
  /\ now = 0
  /\ script = "pause"
  /\ event = [ ev |-> "none" ]
  /\ emitted = << >>
  /\ db = NoRoom
  /\ updated_at = 0
  /\ position = NoPosition
  /\ tried = NoTry

\* s1 and s2 take the seats; during a game s1 and s3 close and open again,
\* the two together or one of them
JoinP ==
  \E s \in Sockets \ connected :
    /\ Listening
    /\ \/ s = "s1" /\ room = NoRoom
       \/ s = "s2" /\ room # NoRoom /\ room.userIds.gote = "null"
       \/ room # NoRoom /\ room.userIds.gote # "null" /\ room.status = "playing"
    /\ connected' = connected \cup { s }
    /\ Handled(join_room_p(room, users, connected \cup { s }, s, PauseUserOf(s),
                           PauseNameOf(s), "game", now),
               [ ev |-> "join_room", socket |-> s ])

SetPauseSettings ==
  /\ room # NoRoom
  /\ room.userIds.gote # "null"
  /\ room.settings \notin SettingsOf(script)
  /\ UpdateSettings

ToggleReadyP ==
  \E role \in Sides, coin \in BOOLEAN :
    /\ Listening
    /\ room # NoRoom
    /\ room.status = "waiting"
    /\ room.settings \in SettingsOf(script)
    /\ room.gameCount = 0 \/ ~room.ready[Other(role)] \/ room.ready[role]
    /\ UNCHANGED connected
    /\ Handled(toggle_ready_p(room, users, connected, role, coin, now),
               [ ev |-> "toggle_ready", role |-> role ])

MoveP ==
  /\ Listening
  /\ room # NoRoom
  /\ room.status = "playing"
  /\ \E s \in connected, move \in Offered(script, room.history) :
       /\ s = room.players[TurnOf(room.history)]
       /\ UNCHANGED connected
       /\ Handled(OnMove_p(room, users, move, << >>, now),
                  [ ev |-> "move", socket |-> s, move |-> move ])

ResignP ==
  \E loser \in Sides :
    /\ Listening
    /\ room # NoRoom
    /\ room.status = "playing"
    /\ UNCHANGED connected
    /\ Handled(game_resign_p(room, users, loser, now),
               [ ev |-> "game_resign", loser |-> loser ])

ResetP ==
  /\ Listening
  /\ room # NoRoom
  /\ room.status = "playing"
  /\ room.gameCount > 0
  /\ UNCHANGED connected
  /\ Handled(reset_p(room, users, now), [ ev |-> "reset" ])

RematchP ==
  \E role \in Sides :
    /\ Listening
    /\ room # NoRoom
    /\ room.status = "finished"
    /\ UNCHANGED connected
    /\ Handled(rematch_p(room, users, role, now), [ ev |-> "rematch", role |-> role ])

DisconnectP ==
  \E s \in connected :
    /\ Listening
    /\ room # NoRoom
    /\ room.status = "playing"
    /\ s # "s2"
    /\ connected' = connected \ { s }
    /\ Handled(disconnect_p(room, users, s, now), [ ev |-> "disconnect", socket |-> s ])

TickP ==
  /\ room # NoRoom
  /\ room.timerInterval # "null"
  /\ UNCHANGED connected
  /\ Handled(tick_p(room, users, now), [ ev |-> "tick" ])

NextPause ==
  \/ JoinP
  \/ SetPauseSettings
  \/ ToggleReadyP
  \/ MoveP
  \/ ResignP
  \/ ResetP
  \/ RematchP
  \/ DisconnectP
  \/ TickP
  \/ Advance

SpecPause == InitPause /\ [][NextPause]_vars

(***************************************************************************)
(* The hourly cleanup, under the idle script: nobody plays, days pass.     *)
(***************************************************************************)
InitIdle ==
  /\ room = NoRoom
  /\ users = [ s \in Sockets |-> NoUser ]
  /\ connected = { }
  /\ now = 0
  /\ script = "idle"
  /\ event = [ ev |-> "none" ]
  /\ emitted = << >>
  /\ db = NoRoom
  /\ updated_at = 0
  /\ position = NoPosition
  /\ tried = NoTry

JoinIdle ==
  \E s \in { "s1", "s2" } \ connected :
    /\ connected' = connected \cup { s }
    /\ Handled(join_room(room, users, s, UserOf(s), NameOf(s), "game", now),
               [ ev |-> "join_room", socket |-> s ])

SettingsIdle ==
  \E settings \in SettingsOf(script), s \in connected :
    /\ room # NoRoom
    /\ UNCHANGED connected
    /\ Handled(update_settings(room, users, settings),
               [ ev |-> "update_settings", settings |-> settings ])

LeaveIdle ==
  \E s \in connected :
    /\ connected' = connected \ { s }
    /\ Handled(disconnect(room, users, s), [ ev |-> "disconnect", socket |-> s ])

\* the interval of the cleanup fires
Cleanup ==
  \E others \in BOOLEAN :
    LET res == cleanup(room, db, updated_at, connected, now, others)
    IN  /\ room' = res.room
        /\ db' = res.db
        /\ event' = [ ev |-> "cleanup" ]
        /\ emitted' = << >>
        /\ UNCHANGED << users, connected, now, script, updated_at, position, tried >>

\* half a day passes
Elapse ==
  /\ now + DayStep <= MaxDays
  /\ now' = now + DayStep
  /\ event' = [ ev |-> "time" ]
  /\ emitted' = << >>
  /\ UNCHANGED << room, users, connected, script, db, updated_at, position, tried >>

NextIdle ==
  \/ JoinIdle
  \/ SettingsIdle
  \/ LeaveIdle
  \/ Cleanup
  \/ Elapse

SpecIdle == InitIdle /\ [][NextIdle]_vars

(***************************************************************************)
(* The rules alone, under the rules script: isValidMove is asked about a   *)
(* move as the move handler asks it in a game, and applyMove applies the   *)
(* move where the answer is yes.                                           *)
(***************************************************************************)

\* the board with these pieces, given as << x, y, piece >>
Placed(pieces) ==
  [ y \in Coord |-> [ x \in Coord |->
      IF \E p \in pieces : p[1] = x /\ p[2] = y
      THEN (CHOOSE p \in pieces : p[1] = x /\ p[2] = y)[3]
      ELSE Null ] ]

Promoted(type, owner) == [ type |-> type, owner |-> owner, isPromoted |-> TRUE ]

\* An endgame: gote's king in the corner, a gold of sente in front of it;
\* a pawn, a knight and a lance of sente near their last ranks, a promoted
\* lance of gote on sente's last rank.
EndgamePieces ==
  { << 0, 0, Piece("King", "gote") >>,
    << 1, 2, Piece("Gold", "sente") >>,
    << 8, 1, Piece("Pawn", "sente") >>,
    << 7, 2, Piece("Knight", "sente") >>,
    << 5, 2, Piece("Lance", "sente") >>,
    << 8, 0, Promoted("PromotedLance", "gote") >>,
    << 4, 8, Piece("King", "sente") >> }

\* what gote holds in both endgames
EndgameGoteHand ==
  [ EMPTY_HAND EXCEPT !.Pawn = 16, !.Lance = 1, !.Knight = 2, !.Silver = 4,
                      !.Gold = 3, !.Bishop = 1, !.Rook = 2 ]

\* the bishop of sente watches the square beside the king
Guarded ==
  [ board |-> Placed(EndgamePieces \cup { << 3, 2, Piece("Bishop", "sente") >> }),
    hands |-> [ sente |-> [ EMPTY_HAND EXCEPT !.Pawn = 1, !.Lance = 1, !.Knight = 1 ],
                gote |-> EndgameGoteHand ],
    turn |-> "sente" ]

\* the bishop of sente is in hand
Unguarded ==
  [ board |-> Placed(EndgamePieces),
    hands |-> [ sente |-> [ EMPTY_HAND EXCEPT !.Pawn = 1, !.Lance = 1, !.Knight = 1,
                                              !.Bishop = 1 ],
                gote |-> EndgameGoteHand ],
    turn |-> "sente" ]

Opening ==
  [ board |-> createInitialBoard, hands |-> InitialHands, turn |-> "sente" ]

StartPositions == { Opening, Guarded, Unguarded }

\* the squares the moves sent start from and go to
FromSquares ==
  { [ x |-> 8, y |-> 1 ], [ x |-> 7, y |-> 2 ], [ x |-> 5, y |-> 2 ], [ x |-> 1, y |-> 2 ],
    [ x |-> 3, y |-> 2 ], [ x |-> 0, y |-> 0 ], [ x |-> 3, y |-> 8 ], [ x |-> 6, y |-> 6 ] }

ToSquares ==
  { [ x |-> 8, y |-> 0 ], [ x |-> 6, y |-> 0 ], [ x |-> 5, y |-> 0 ], [ x |-> 5, y |-> 1 ],
    [ x |-> 0, y |-> 1 ], [ x |-> 1, y |-> 1 ], [ x |-> 1, y |-> 0 ], [ x |-> 2, y |-> 1 ],
    [ x |-> 8, y |-> 2 ], [ x |-> 3, y |-> 7 ], [ x |-> 6, y |-> 5 ], [ x |-> 4, y |-> 4 ],
    [ x |-> 9, y |-> 0 ] }

\* the kinds dropped; no hand has a key Queen
DropKinds == { "Pawn", "Lance", "Knight", "Bishop", "Queen" }

InitRules ==
  /\ room = NoRoom
  /\ users = [ s \in Sockets |-> NoUser ]
  /\ connected = { }
  /\ now = 0
  /\ script = "rules"
  /\ event = [ ev |-> "none" ]
  /\ emitted = << >>
  /\ db = NoRoom
  /\ updated_at = 0
  /\ position \in StartPositions
  /\ tried = NoTry

\* isValidMove is asked as the move handler asks it (checkUchiFuzume left
\* to its default) and, for comparison, with checkUchiFuzume false; the
\* move is applied where the handler goes on.  One move is asked in a run.
Asked(move) ==
  \E strict \in { isValidMove(position.board, position.hands, position.turn, move, TRUE) } :
    LET next == applyMove(position.board, position.hands, move, position.turn)
    IN  /\ tried = NoTry
        /\ tried' = [ board |-> position.board, hands |-> position.hands,
                      turn |-> position.turn, move |-> move, strict |-> strict,
                      lax |-> isValidMove(position.board, position.hands, position.turn,
                                          move, FALSE) ]
        /\ position' = IF strict
                       THEN [ board |-> next.board, hands |-> next.hands,
                              turn |-> next.turn ]
                       ELSE position
        /\ UNCHANGED << room, users, connected, now, script, event, emitted, db, updated_at >>

\* a move of a piece on the board; the client names the kind on the
\* from-square or calls it a gold
TryMove ==
  \E from \in FromSquares, to \in ToSquares, isPromoted \in BOOLEAN :
    \E piece \in { position.board[from.y][from.x].type, "Gold" } :
      Asked([ from |-> from, to |-> to, piece |-> piece, drop |-> FALSE,
              isPromoted |-> isPromoted ])

TryDrop ==
  \E to \in ToSquares, piece \in DropKinds :
    Asked([ from |-> Hand, to |-> to, piece |-> piece, drop |-> TRUE,
            isPromoted |-> FALSE ])

NextRules ==
  \/ TryMove
  \/ TryDrop

SpecRules == InitRules /\ [][NextRules]_vars

(***************************************************************************)
(* Properties                                                              *)
(***************************************************************************)

\* the last handler emitted an event of this name
Emitted(name) == \E i \in 1..Len(emitted) : emitted[i].ev = name

\* the last handler emitted game_finished with this reason
EndedWith(reason) ==
  \E i \in 1..Len(emitted) :
    emitted[i].ev = "game_finished" /\ emitted[i].reason = reason

\* the last handler emitted game_finished with this winner and reason
EndedBy(winner, reason) ==
  \E i \in 1..Len(emitted) :
    emitted[i] = [ ev |-> "game_finished", winner |-> winner, reason |-> reason ]

Playing == room # NoRoom /\ room.status = "playing"

\* C1: while status is playing, a move event whose move isValidMove rejects
\* for the side to move leaves every field of the room unchanged, the timer
\* handle included, and nothing is emitted.
C1_RejectedMoveIgnored ==
  [][ ( /\ event'.ev = "move"
        /\ Playing
        /\ ~isValidMove(room.board, room.hands, TurnOf(room.history), event'.move, TRUE) )
      => ( room' = room /\ emitted' = << >> ) ]_vars

\* a pawn drop on (4,2) was sent to a running game and rejected
C1_Witness ==
  /\ Playing
  /\ room.timerInterval # "null"
  /\ event.ev = "move"
  /\ event.move = Dr(4, 2, "Pawn")
  /\ ~isValidMove(room.board, room.hands, TurnOf(room.history), event.move, TRUE)
  /\ emitted = << >>

\* C2: while status is playing, a move event changes history, board or hands
\* only if the socket that sent it is the one seated as the side to move.
C2_OnlySideToMoveMoves ==
  [][ ( /\ event'.ev = "move"
        /\ Playing
        /\ \/ room'.history # room.history
           \/ room'.board # room.board
           \/ room'.hands # room.hands )
      => event'.socket = room.players[TurnOf(room.history)] ]_vars

\* C3: a move event received while status is waiting or finished leaves
\* history, board and hands unchanged and emits no event.
C3_MoveOutsideGameIgnored ==
  [][ ( /\ event'.ev = "move"
        /\ room # NoRoom
        /\ room.status \in { "waiting", "finished" } )
      => ( /\ room'.history = room.history
           /\ room'.board = room.board
           /\ room'.hands = room.hands
           /\ emitted' = << >> ) ]_vars

\* C4: the status of a room changes only from waiting to playing at a
\* toggle_ready, from playing to finished at a move, a tick or a resignation,
\* and from finished to waiting at a rematch.
C4_StatusEdges ==
  [][ ( room # NoRoom /\ room'.status # room.status )
      => \/ /\ room.status = "waiting" /\ room'.status = "playing"
            /\ event'.ev = "toggle_ready"
         \/ /\ room.status = "playing" /\ room'.status = "finished"
            /\ event'.ev \in { "move", "tick", "game_resign" }
         \/ /\ room.status = "finished" /\ room'.status = "waiting"
            /\ event'.ev = "rematch" ]_vars

\* some move a client can name for side turn is accepted by isValidMove with
\* checkUchiFuzume = false: a board move of one of its pieces, declared as any
\* kind, promoting or not, or a drop of any kind
HasReply(board, hands, turn) ==
  \/ \E f \in Squares :
       /\ board[f.y][f.x].owner = turn
       /\ \E t \in Squares, p \in PIECE_TYPES, pr \in BOOLEAN :
            isValidMove(board, hands, turn, Mv(f.x, f.y, t.x, t.y, p, pr), FALSE)
  \/ \E t \in Squares, p \in PIECE_TYPES :
       isValidMove(board, hands, turn, Dr(t.x, t.y, p), FALSE)

RECURSIVE PositionsFrom(_, _)
PositionsFrom(pos, moves) ==
  IF moves = << >> THEN << pos >>
  ELSE << pos >> \o PositionsFrom(applyMove(pos.board, pos.hands, Head(moves), pos.turn),
                                  Tail(moves))

Positions(history) == PositionsFrom(InitialPosition, history)

\* how often the most frequent position of the sequence occurs in it
MostFrequent(positions) ==
  LET count(k) == Cardinality({ j \in 1..Len(positions) : positions[j] = positions[k] })
  IN  CHOOSE c \in 1..Len(positions) :
        /\ \E k \in 1..Len(positions) : count(k) = c
        /\ \A k \in 1..Len(positions) : count(k) <= c

\* how often the last position of the sequence occurs in it
LastCount(positions) ==
  Cardinality({ j \in 1..Len(positions) : positions[j] = positions[Len(positions)] })

EndedByRepetition == EndedWith("sennichite") \/ EndedWith("illegal_sennichite")

\* C6: within one game, counting the starting position as one occurrence, a
\* repetition ending is declared at exactly the accepted move that makes some
\* position occur for the 4th time: a game that goes on has seen no position
\* 4 times, and a game ended by repetition ends on a 4th occurrence.
C6_FourthOccurrence ==
  /\ Playing => MostFrequent(Positions(room.history)) <= 3
  /\ ( event.ev = "move" /\ EndedByRepetition ) =>
       LastCount(Positions(room.history)) = 4

\* C7: a game ended by repetition is classified over the block of moves after
\* the previous occurrence of the repeated position up to the current move:
\* illegal_sennichite won by gote if the block has a sente move and all its
\* sente moves have isCheck, else illegal_sennichite won by sente if it has a
\* gote move and all its gote moves have isCheck, else sennichite, no winner.
C7_RepetitionVerdict ==
  ( event.ev = "move" /\ Emitted("move") /\ EndedByRepetition ) =>
    LET h == room.history
        n == Len(h)
        pos == Positions(h)
        \* the number of moves played when the repeated position last stood
        prev == CHOOSE k \in 0..(n - 1) :
                  /\ pos[k + 1] = pos[n + 1]
                  /\ \A j \in (k + 1)..(n - 1) : pos[j + 1] # pos[n + 1]
        block == (prev + 1)..n
        senteMoves == { i \in block : i % 2 = 1 }
        goteMoves == { i \in block : i % 2 = 0 }
        winner == IF senteMoves # { } /\ \A i \in senteMoves : h[i].isCheck THEN "gote"
                  ELSE IF goteMoves # { } /\ \A i \in goteMoves : h[i].isCheck THEN "sente"
                  ELSE "null"
        reason == IF winner = "null" THEN "sennichite" ELSE "illegal_sennichite"
    IN  /\ \E k \in 0..(n - 1) : pos[k + 1] = pos[n + 1]
        /\ EndedBy(winner, reason)
        /\ Cardinality({ i \in 1..Len(emitted) : emitted[i].ev = "game_finished" }) = 1
        /\ room.status = "finished"
        /\ room.winner = winner

\* sente has checked on every move of the repeated block and lost
C7_Witness ==
  /\ event.ev = "move"
  /\ EndedBy("gote", "illegal_sennichite")
  /\ room.status = "finished"
  /\ room.winner = "gote"

\* the other two verdicts
C7_DrawReached == event.ev = "move" /\ EndedBy("null", "sennichite")

C7_GoteChecksReached == event.ev = "move" /\ EndedBy("sente", "illegal_sennichite")

\* C8: while the clock runs for the side to move S, a tick ends the game
\* (finished, reason timeout, winner the other side, timer stopped) exactly
\* when the whole seconds since lastMoveTimestamp exceed times[S] +
\* settings.byoyomi; any other tick emits time_update and changes no room
\* state.
C8_TickTimeout ==
  [][ ( event'.ev = "tick" /\ Playing /\ room.timerInterval # "null" ) =>
        LET S == TurnOf(room.history)
            seconds == (now - room.lastMoveTimestamp) \div 1000
        IN  IF seconds > room.times[S] + room.settings.byoyomi
            THEN /\ room' = [ room EXCEPT !.status = "finished", !.winner = Other(S),
                                          !.timerInterval = "null" ]
                 /\ \E i \in 1..Len(emitted') :
                      emitted'[i] = [ ev |-> "game_finished", winner |-> Other(S),
                                      reason |-> "timeout" ]
            ELSE /\ room' = room
                 /\ emitted' = << Emit("time_update") >> ]_vars

\* a tick has ended a game on time
C8_Witness ==
  /\ event.ev = "tick"
  /\ EndedWith("timeout")
  /\ room.status = "finished"
  /\ room.timerInterval = "null"

\* a tick on the last second before the loss only showed the time
C8_LastSecondReached ==
  /\ event.ev = "tick"
  /\ Playing
  /\ (now - room.lastMoveTimestamp) \div 1000
       = room.times[TurnOf(room.history)] + room.settings.byoyomi
  /\ emitted = << Emit("time_update") >>

\* C9: if a room is playing with its clock running for S and no further
\* event arrives, the ticks eventually finish it with reason timeout and the
\* side other than S as winner.  The instants are those of the wall clock up
\* to MaxTime, so S's loss must fall before that.
C9_TimeoutEventually ==
  \A S \in Sides :
    ( /\ Playing
      /\ room.timerInterval # "null"
      /\ TurnOf(room.history) = S
      /\ ~Listening
      /\ room.lastMoveTimestamp
           + (room.times[S] + room.settings.byoyomi + 1) * 1000 + TimeStep <= MaxTime )
    ~> ( /\ room.status = "finished"
         /\ room.winner = Other(S)
         /\ EndedBy(Other(S), "timeout") )

\* sente never moved and, the clients silent, lost on time
C9_Witness ==
  /\ ~Listening
  /\ event.ev = "tick"
  /\ EndedBy("gote", "timeout")
  /\ room.history = << >>
  /\ room.winner = "gote"

\* C10: whenever game_finished with reason timeout is emitted, the loser is
\* the side to move by the parity of |history|; a side whose move was
\* accepted does not lose that turn on time.
C10_TimeoutLoserToMove ==
  \A i \in 1..Len(emitted) :
    ( emitted[i].ev = "game_finished" /\ emitted[i].reason = "timeout" )
      => ( room # NoRoom /\ emitted[i].winner = Other(TurnOf(room.history)) )

\* sente moved in time and gote then lost on time
C10_Witness ==
  /\ event.ev = "tick"
  /\ EndedBy("sente", "timeout")
  /\ Len(room.history) = 1
  /\ room.history[1].isCheck = FALSE

\* C11: when a move event ends the game (checkmate, sennichite or
\* illegal_sennichite), the handler emits the move event of that move before
\* game_finished, and between the two it emits nothing: only the snapshot
\* write of handleGameEnd lies between them.
C11_MoveBeforeFinished ==
  \A i \in 1..Len(emitted) :
    ( event.ev = "move" /\ emitted[i].ev = "game_finished" )
      => /\ emitted[i].reason \in { "checkmate", "sennichite", "illegal_sennichite" }
         /\ \E j \in 1..(i - 1) :
              /\ emitted[j].ev = "move"
              /\ emitted[j].move = room.history[Len(room.history)]
              /\ \A k \in (j + 1)..(i - 1) : emitted[k] = SaveRoom

\* a move has just ended a game by repetition with both sides to blame or
\* one, or by checkmate, and the seats got their statistics after the result
C11_Witness ==
  /\ event.ev = "move"
  /\ room # NoRoom /\ room.status = "finished"
  /\ Emitted("game_finished")
  /\ \E i \in 1..Len(emitted) : emitted[i].ev = "receive_message"

\* C12: from a game start to the next game start, rematch reset or reset at
\* most one game_finished is emitted, and while status stays finished the
\* winner stays.  gameCount counts the game starts since the last reset, so a
\* step that finds status finished with gameCount >= 1 and leaves both is
\* none of the three; it emits no game_finished and keeps the winner.
C12_OneResultPerGame ==
  [][ ( /\ room # NoRoom /\ room' # NoRoom
        /\ room.status = "finished" /\ room'.status = "finished"
        /\ room.gameCount >= 1 /\ room'.gameCount = room.gameCount )
      => ( /\ room'.winner = room.winner
           /\ \A i \in 1..Len(emitted') : emitted'[i].ev # "game_finished" ) ]_vars

\* C13: (server file with the pause) when a socket registered with the role
\* sente or gote disconnects while status is playing and the timer runs, the
\* timer is cancelled and the time of the side to move is committed:
\* totalConsumedTimes[side] grows by the elapsed milliseconds, times[side]
\* falls by the elapsed whole seconds but not below 0, lastMoveTimestamp
\* becomes now, and the snapshot is written.
C13_DisconnectCommits ==
  [][ ( /\ event'.ev = "disconnect"
        /\ Playing
        /\ room.timerInterval # "null"
        /\ users[event'.socket] # NoUser
        /\ users[event'.socket].role \in Sides )
      => LET side == TurnOf(room.history)
             elapsedMs == now - room.lastMoveTimestamp
         IN  /\ room'.timerInterval = "null"
             /\ room'.totalConsumedTimes[side] = room.totalConsumedTimes[side] + elapsedMs
             /\ room'.totalConsumedTimes[Other(side)] = room.totalConsumedTimes[Other(side)]
             /\ room'.times[side] = Max(0, room.times[side] - Floor1000(elapsedMs))
             /\ room'.times[Other(side)] = room.times[Other(side)]
             /\ room'.lastMoveTimestamp = now
             /\ \E i \in 1..Len(emitted') : emitted'[i] = SaveRoom ]_vars

\* sente's socket closed a second and a half into sente's first move: the
\* second of main time is gone and 1500 ms are on the account
C13_Witness ==
  /\ event.ev = "disconnect"
  /\ Playing
  /\ room.timerInterval = "null"
  /\ room.history = << >>
  /\ room.lastMoveTimestamp = now
  /\ room.totalConsumedTimes.sente = 1500
  /\ room.times.sente = 0
  /\ \E i \in 1..Len(emitted) : emitted[i] = SaveRoom

\* the socket registered for an occupied seat is closed
SeatAway ==
  \E seat \in Sides : room.players[seat] # "null" /\ room.players[seat] \notin connected

\* C14: (server file with the pause) while status is playing and the socket
\* registered for a seat is closed, no timer runs, whatever events have
\* arrived since it closed, so that no time_update goes out and no timeout
\* ends the game before both are back.
C14_NoClockWhileAway ==
  ( Playing /\ SeatAway ) => room.timerInterval = "null"

\* C16: (server file with the pause) after any handler, if status is
\* playing and the sockets registered for both seats are open, the timer
\* runs.
C16_ClockRunsWhenBothOnline ==
  ( /\ Playing
    /\ IsOnline(room, connected, "sente")
    /\ IsOnline(room, connected, "gote") )
  => room.timerInterval # "null"

\* the old socket of a player who is back on a new one closed, and the game
\* is left without a timer although both registered sockets are open
C16_OldSessionReached ==
  /\ event.ev = "disconnect"
  /\ ~C16_ClockRunsWhenBothOnline

\* C15: (server file with the pause) after a pause and a resume the clock
\* counts down from what was committed: the side to move has times[side]
\* seconds of main time, then currentByoyomi[side] seconds of byoyomi, and
\* the second of grace of the timeout test.  So a tick that leaves the game
\* running has seen fewer whole seconds since the timer was started than
\* these three together, and leaving and coming back adds no time.
C15_ResumeFromCommitted ==
  ( event.ev = "tick" /\ Playing /\ room.timerInterval # "null" )
  => LET side == TurnOf(room.history)
     IN  Floor1000(now - room.lastMoveTimestamp)
           < room.times[side] + room.currentByoyomi[side] + 1

\* C17: within one game, that is on every step that neither starts a game
\* nor is the reset two rematch requests bring, totalConsumedTimes of
\* neither side decreases: moves, ticks, disconnects, joins, resets and the
\* end of the game only add to it.
C17_ConsumedNeverDecreases ==
  [][ ( /\ room # NoRoom /\ room' # NoRoom
        /\ ~( /\ event'.ev = "toggle_ready"
              /\ \E i \in 1..Len(emitted') : emitted'[i].ev = "game_started" )
        /\ ~( /\ event'.ev = "rematch"
              /\ \E i \in 1..Len(emitted') : emitted'[i].ev = "sync" ) )
      => \A s \in Sides : room'.totalConsumedTimes[s] >= room.totalConsumedTimes[s] ]_vars

\* both sides have time on their accounts, sente's from two stretches: a
\* socket has come back and the clock runs again
C17_Witness ==
  /\ event.ev = "join_room"
  /\ Playing
  /\ room.timerInterval # "null"
  /\ room.totalConsumedTimes.sente >= 1000
  /\ room.totalConsumedTimes.gote >= 500

\* C18: the timer handle of a room is set only while its status is playing,
\* and the interval's callback runs only for a game that is playing: it
\* leaves the status playing or ends the game by timeout itself.
C18_TimerOnlyWhilePlaying ==
  room # NoRoom =>
    /\ room.timerInterval # "null" => room.status = "playing"
    /\ event.ev = "tick" => ( room.status = "playing" \/ EndedWith("timeout") )

\* two rematch requests have put a room that had a game back to waiting,
\* and no timer is left
C18_Witness ==
  /\ event.ev = "rematch"
  /\ room.status = "waiting"
  /\ room.gameCount >= 1
  /\ room.timerInterval = "null"
  /\ Emitted("sync")

\* C19: in every reachable state of the room, whatever its status, the
\* replay of history from the initial position with applyMove gives
\* room.board and room.hands.
C19_ReplayGivesBoard ==
  room # NoRoom =>
    LET replay == ReplayFromStart(room.history)
    IN  /\ ~replay.threw
        /\ replay.board = room.board
        /\ replay.hands = room.hands

\* C20: in every reachable state of the room the fingerprint of the
\* position after each prefix of history, the empty one included, is a key
\* of sfenHistory, with a count of at least the number of prefixes that
\* reach the position.
C20_PrefixesCounted ==
  room # NoRoom =>
    LET replay == ReplayFromStart(room.history)
        sfens == << InitialSfen >> \o replay.sfens
    IN  /\ ~replay.threw
        /\ \A i \in 1..Len(sfens) :
             /\ sfens[i] \in DOMAIN room.sfenHistory
             /\ room.sfenHistory[sfens[i]]
                  >= Cardinality({ j \in 1..Len(sfens) : sfens[j] = sfens[i] })

\* some move of the sequence, applied to the position the moves before it
\* give from pos on, leaves the king of its mover in check; a move that
\* cannot be applied ends the replay
RECURSIVE SelfCheckIn(_, _)
SelfCheckIn(pos, moves) ==
  IF moves = << >> \/ applyMoveThrows(pos.board, Head(moves)) THEN FALSE
  ELSE LET r == applyMove(pos.board, pos.hands, Head(moves), pos.turn)
       IN  isKingInCheck(r.board, pos.turn) \/ SelfCheckIn(r, Tail(moves))

\* C21: in every reachable state of the room no move of history, applied to
\* the position its predecessors give, leaves its mover's own king in check.
C21_NoSelfCheckInHistory ==
  room # NoRoom => ~SelfCheckIn(InitialPosition, room.history)

\* the user ids of the seats before a join: none in a room the join creates
SeatedBefore == IF room = NoRoom THEN BothNull ELSE room.userIds

\* C22: a join gives the role sente to the user recorded for sente, else
\* gote to the user recorded for gote, else the free sente seat, else the
\* free gote seat, else makes the joiner a spectator.  The role is what the
\* session map and the sync to the joiner say; a seat taken records the
\* user and the socket, a spectator changes no seat.  So the holder of a
\* seat gets that seat back on every join.
C22_JoinRole ==
  [][ event'.ev = "join_room" =>
        LET socket == event'.socket
            user == UserOf(socket)
            before == SeatedBefore
            role == users'[socket].role
        IN  /\ before.sente = user => role = "sente"
            /\ ( before.sente # user /\ before.gote = user ) => role = "gote"
            /\ ( user \notin { before.sente, before.gote } /\ before.sente = "null" )
                 => role = "sente"
            /\ ( user \notin { before.sente, before.gote } /\ before.sente # "null"
                 /\ before.gote = "null" ) => role = "gote"
            /\ ( user \notin { before.sente, before.gote } /\ before.sente # "null"
                 /\ before.gote # "null" ) => role = "audience"
            /\ \E i \in 1..Len(emitted') :
                 emitted'[i] = [ ev |-> "sync", to |-> socket, yourRole |-> role ]
            /\ role \in Sides =>
                 /\ room'.userIds[role] = user
                 /\ room'.players[role] = socket
                 /\ room'.userIds[Other(role)] = before[Other(role)]
            /\ role = "audience" =>
                 /\ room'.userIds = room.userIds
                 /\ room'.players = room.players ]_vars

\* the second user is back after a game start that swapped the seats, and
\* sits as sente again
C22_Witness ==
  /\ event = [ ev |-> "join_room", socket |-> "s2" ]
  /\ room.gameCount >= 1
  /\ room.userIds.sente = "u2"
  /\ users["s2"].role = "sente"
  /\ room.players.sente = "s2"

\* C23: a toggle_ready that makes both ready flags true leaves the room
\* playing with empty history, the initial board, empty hands, the starting
\* position counted once and nothing else, times and currentByoyomi from the
\* settings, no consumed time, no winner, all four flags false, gameCount
\* one higher and a timer running for sente; a toggle_ready that leaves a
\* flag false changes the toggled ready flag and nothing else.
C23_GameStart ==
  [][ event'.ev = "toggle_ready" =>
        LET flipped == [ room.ready EXCEPT ![event'.role] = ~@ ]
        IN  IF flipped.sente /\ flipped.gote
            THEN /\ room'.status = "playing"
                 /\ room'.history = << >>
                 /\ room'.board = createInitialBoard
                 /\ room'.hands = [ sente |-> EMPTY_HAND, gote |-> EMPTY_HAND ]
                 /\ DOMAIN room'.sfenHistory = { InitialSfen }
                 /\ room'.sfenHistory[InitialSfen] = 1
                 /\ \A s \in Sides :
                      /\ room'.times[s] = room.settings.initial
                      /\ room'.currentByoyomi[s] = room.settings.byoyomi
                      /\ room'.totalConsumedTimes[s] = 0
                      /\ ~room'.ready[s]
                      /\ ~room'.rematchRequests[s]
                 /\ room'.settings = room.settings
                 /\ room'.winner = "null"
                 /\ room'.gameCount = room.gameCount + 1
                 /\ room'.timerInterval = "sente"
            ELSE room' = [ room EXCEPT !.ready = flipped ] ]_vars

\* the second game of a room has just started
C23_Witness ==
  /\ event.ev = "toggle_ready"
  /\ Emitted("game_started")
  /\ room.status = "playing"
  /\ room.gameCount = 2
  /\ room.timerInterval = "sente"
  /\ room.history = << >>

\* the two seats of a record of the room exchanged
Exchanged(seats) == [ sente |-> seats.gote, gote |-> seats.sente ]

\* C24: a game start swaps the seats only if settings.randomTurn holds and
\* not both gameCount > 0 and settings.fixTurn; a swap exchanges players,
\* userIds and playerNames together, and then the role recorded for the
\* socket of each seat is that seat, under the user id of the seat; without
\* a swap seats and recorded roles stay.
C24_SeatSwap ==
  [][ ( event'.ev = "toggle_ready"
        /\ \E i \in 1..Len(emitted') : emitted'[i].ev = "game_started" )
      => LET same == /\ room'.players = room.players
                     /\ room'.userIds = room.userIds
                     /\ room'.playerNames = room.playerNames
                     /\ users' = users
             swapped == /\ room'.players = Exchanged(room.players)
                        /\ room'.userIds = Exchanged(room.userIds)
                        /\ room'.playerNames = Exchanged(room.playerNames)
                        /\ \A seat \in Sides :
                             LET socket == room'.players[seat]
                             IN  ( socket # "null" /\ users'[socket] # NoUser )
                                 => /\ users'[socket].role = seat
                                    /\ users'[socket].userId = room'.userIds[seat]
             allowed == /\ room.settings.randomTurn
                        /\ ~( room.gameCount > 0 /\ room.settings.fixTurn )
         IN  same \/ ( swapped /\ allowed ) ]_vars

\* the first game of a room started with the seats swapped: the second user
\* is sente and the session map says so
C24_Witness ==
  /\ event.ev = "toggle_ready"
  /\ Emitted("game_started")
  /\ room.gameCount = 1
  /\ room.userIds = [ sente |-> "u2", gote |-> "u1" ]
  /\ room.players = [ sente |-> "s2", gote |-> "s1" ]
  /\ room.playerNames = [ sente |-> "B", gote |-> "A" ]
  /\ users["s2"].role = "sente"
  /\ users["s1"].role = "gote"

\* a second game started under randomTurn with fixTurn: no coin is thrown
C24_FixedTurnReached ==
  /\ event.ev = "toggle_ready"
  /\ Emitted("game_started")
  /\ room.gameCount = 2
  /\ room.settings.randomTurn
  /\ room.settings.fixTurn

\* C25: a game_resign naming seat L as loser, received while the status is
\* playing, leaves the room finished with the side opposite to L as winner
\* and the clock stopped, every other field as it was; the room is saved and
\* exactly one game_finished goes out, with reason resign and that winner.
C25_Resign ==
  [][ ( event'.ev = "game_resign" /\ Playing ) =>
        LET winner == Other(event'.loser)
            finished == SelectSeq(emitted', LAMBDA m : m.ev = "game_finished")
        IN  /\ room' = [ room EXCEPT !.status = "finished", !.winner = winner,
                                     !.timerInterval = "null" ]
            /\ finished = << [ ev |-> "game_finished", winner |-> winner,
                               reason |-> "resign" ] >>
            /\ \E i \in 1..Len(emitted') : emitted'[i] = SaveRoom ]_vars

\* a resignation ended a game that was being played and had its clock running
C25_Witness ==
  /\ event.ev = "game_resign"
  /\ ~Wild(script)
  /\ room.status = "finished"
  /\ room.winner = Other(event.loser)
  /\ room.history # << >>
  /\ room.timerInterval = "null"

NewGameFields(r) ==
  /\ r.status = "waiting"
  /\ r.history = << >>
  /\ r.board = createInitialBoard
  /\ r.hands = InitialHands
  /\ r.winner = "null"
  /\ r.ready = BothFalse
  /\ r.rematchRequests = BothFalse
  /\ r.times = [ sente |-> r.settings.initial, gote |-> r.settings.initial ]
  /\ r.currentByoyomi = [ sente |-> r.settings.byoyomi, gote |-> r.settings.byoyomi ]

\* C26: a rematch request from one seat while the other seat's flag is false
\* only sets that seat's flag; a request that completes the pair puts the
\* room in waiting with empty history, the initial board, empty hands, no
\* winner, both ready and both rematch flags false, and times and
\* currentByoyomi taken from the settings.  A room that is not playing
\* starts playing only by the toggle_ready that completes the pair of ready
\* flags.
C26_Rematch ==
  [][ /\ event'.ev = "rematch" =>
            IF ~room.rematchRequests[Other(event'.role)]
            THEN room' = [ room EXCEPT !.rematchRequests[event'.role] = TRUE ]
            ELSE NewGameFields(room') /\ room'.settings = room.settings
      /\ ( room.status # "playing" /\ room'.status = "playing" ) =>
            /\ event'.ev = "toggle_ready"
            /\ room.ready[Other(event'.role)]
            /\ ~room.ready[event'.role] ]_vars

\* the second request arrived after a finished game and the room is waiting anew
C26_Witness ==
  /\ event.ev = "rematch"
  /\ ~Wild(script)
  /\ room.status = "waiting"
  /\ room.gameCount > 0
  /\ room.rematchRequests = BothFalse
  /\ room.history = << >>

\* how often each position the prefixes of a replayed history reach occurs
\* among them, the starting position included
ExactCounts(sfens) ==
  LET all == << InitialSfen >> \o sfens
  IN  [ f \in { all[i] : i \in 1..Len(all) } |->
          Cardinality({ i \in 1..Len(all) : all[i] = f }) ]

\* C27: undo does nothing while status is playing or history is empty;
\* otherwise it drops the last entry of history and nothing else of it,
\* sets board and hands to the replay of what remains and sfenHistory to
\* the exact count of every position the prefixes of what remains reach,
\* and leaves status, winner, times and seats as they are.
C27_Undo ==
  [][ event'.ev = "undo" =>
        IF room.status = "playing" \/ room.history = << >>
        THEN room' = room /\ emitted' = << >>
        ELSE LET kept == SubSeq(room.history, 1, Len(room.history) - 1)
                 replay == ReplayFromStart(kept)
             IN  /\ room'.history = kept
                 /\ ~replay.threw
                 /\ room'.board = replay.board
                 /\ room'.hands = replay.hands
                 /\ room'.sfenHistory = ExactCounts(replay.sfens)
                 /\ room'.status = room.status
                 /\ room'.winner = room.winner
                 /\ room'.times = room.times
                 /\ room'.players = room.players
                 /\ room'.userIds = room.userIds ]_vars


\* C28: a reset received while the status is playing changes nothing of the
\* game: history, board, hands, times, gameCount and the running clock stay.
C28_ResetOnlyOutsidePlay ==
  [][ ( event'.ev = "reset" /\ Playing ) =>
        /\ room'.history = room.history
        /\ room'.board = room.board
        /\ room'.hands = room.hands
        /\ room'.times = room.times
        /\ room'.gameCount = room.gameCount
        /\ room'.timerInterval = room.timerInterval ]_vars

\* C29: update_settings received in waiting replaces the settings by the
\* ones sent, saves and broadcasts settings_updated; received in any other
\* status it changes no field and emits nothing.  No step of a room that is
\* playing changes its settings.
C29_SettingsOnlyWhileWaiting ==
  [][ /\ event'.ev = "update_settings" =>
            IF room.status = "waiting"
            THEN /\ room' = [ room EXCEPT !.settings = event'.settings ]
                 /\ emitted' = << SaveRoom, Emit("settings_updated") >>
            ELSE room' = room /\ emitted' = << >>
      /\ Playing => room'.settings = room.settings ]_vars

\* settings other than the room's arrived during a game and were not taken
C29_Witness ==
  /\ event.ev = "update_settings"
  /\ room.status = "playing"
  /\ room.settings # event.settings
  /\ emitted = << >>

\* the events that carry fields of the room to the clients
Reflecting ==
  { "sync", "ready_status", "rematch_status", "move", "game_started", "game_finished",
    "settings_updated", "player_names_updated" }

\* C30: after every handler the row of the room in the table equals the
\* room without its timer handle, ready flags, rematch flags and sfenHistory
\* included; and a handler that changes the room writes the row before it
\* emits any event that carries fields of the room.
C30_SnapshotCurrent ==
  /\ []( ~Wild(script) => db = saveRoom(room) )
  /\ [][ ( ~Wild(script) /\ saveRoom(room') # saveRoom(room) ) =>
            \A i \in 1..Len(emitted') :
              emitted'[i].ev \in Reflecting =>
                \E j \in 1..(i - 1) : emitted'[j] = SaveRoom ]_vars

\* C37: a room with a winner is finished.
C37_WinnerOnlyWhenFinished ==
  ( room # NoRoom /\ room.winner # "null" ) => room.status = "finished"

\* a game that had a winner was followed by a rematch and a second game
C37_Witness ==
  /\ script = "mate"
  /\ event.ev = "toggle_ready"
  /\ room.status = "playing"
  /\ room.gameCount = 2
  /\ room.winner = "null"

\* both seats of the room are assigned
Assigned(r) == r # NoRoom /\ r.userIds.sente # "null" /\ r.userIds.gote # "null"

\* C38: the two seats, once assigned, hold two distinct users; from then on
\* the pair changes only by being exchanged at a game start, whatever is
\* joined, left, reset or asked again; and a user who holds no seat joins
\* as a spectator.
C38_SeatsKept ==
  /\ []( Assigned(room) => room.userIds.sente # room.userIds.gote )
  /\ [][ ( Assigned(room) /\ room' # NoRoom ) =>
            /\ \/ room'.userIds = room.userIds
               \/ /\ event'.ev = "toggle_ready"
                  /\ room'.status = "playing"
                  /\ room'.userIds = Exchanged(room.userIds)
            /\ ( event'.ev = "join_room"
                 /\ UserOf(event'.socket) \notin { room.userIds.sente, room.userIds.gote } )
                 => users'[event'.socket].role = "audience" ]_vars

\* with both seats assigned a third user joined to watch and a player left
C38_Witness ==
  /\ Assigned(room)
  /\ event.ev = "disconnect"
  /\ event.socket = "s2"
  /\ "s3" \in connected
  /\ users["s3"].role = "audience"

\* C39: after every handler a connected session whose recorded role is a
\* seat is the session registered for that seat.
C39_RoleIsSeatHeld ==
  room # NoRoom =>
    \A s \in connected :
      ( users[s] # NoUser /\ users[s].role \in Sides ) => room.players[users[s].role] = s

\* C40: a room that is playing has both seats assigned.
C40_PlayingNeedsTwo ==
  Playing => ( room.userIds.sente # "null" /\ room.userIds.gote # "null" )

\* the row was written more than 24 hours before now
Stale == updated_at < now - ONE_DAY

\* C31: the cleanup removes the row of a room and its entry in memory only
\* when the row was last updated more than 24 hours ago and no session of
\* the room is live; and where both hold for a room that has both, it
\* removes both.
C31_Cleanup ==
  [][ event'.ev = "cleanup" =>
        /\ ( db # NoRoom /\ db' = NoRoom ) => ( Stale /\ connected = { } )
        /\ ( room # NoRoom /\ room' = NoRoom ) => ( Stale /\ connected = { } )
        /\ ( db # NoRoom /\ room # NoRoom /\ Stale /\ connected = { } )
             => ( db' = NoRoom /\ room' = NoRoom ) ]_vars

\* the cleanup never deletes the row of a room that has a live session
C31_RowKeptWhileLive ==
  [][ ( event'.ev = "cleanup" /\ db # NoRoom /\ connected # { } ) => db' # NoRoom ]_vars

\* the cleanup evicts a room from memory only with a row older than a day
C31_EvictsOnlyStale ==
  [][ ( event'.ev = "cleanup" /\ room # NoRoom /\ room' = NoRoom ) => Stale ]_vars

\* a room with a row older than a day and no live session loses both
C31_BothRemoved ==
  [][ ( event'.ev = "cleanup" /\ db # NoRoom /\ room # NoRoom /\ Stale
        /\ connected = { } ) => ( db' = NoRoom /\ room' = NoRoom ) ]_vars

\* the cleanup removed a row and a room together
C31_Removed ==
  /\ event.ev = "cleanup"
  /\ room = NoRoom
  /\ db = NoRoom
  /\ now > ONE_DAY

\* a move was asked about
Tried == tried # NoTry

\* the position after the move asked about
After == applyMove(tried.board, tried.hands, tried.move, tried.turn)

\* every move a client can send for a side: any square to any square with
\* and without promotion, naming the piece that stands there, and a drop of
\* every kind the hand has a key of on any square
Replies(board, hands, turn) ==
  { [ from |-> sq, to |-> tq, piece |-> board[sq.y][sq.x].type, drop |-> FALSE,
      isPromoted |-> pr ] : sq \in Squares, tq \in Squares, pr \in BOOLEAN }
  \cup
  { [ from |-> Hand, to |-> tq, piece |-> kind, drop |-> TRUE, isPromoted |-> FALSE ] :
      tq \in Squares, kind \in DOMAIN hands[turn] }

\* the side has a move that isValidMove accepts with checkUchiFuzume false
Answerable(board, hands, turn) ==
  \E m \in Replies(board, hands, turn) : isValidMove(board, hands, turn, m, FALSE)

\* C32: isValidMove with checkUchiFuzume true rejects a pawn drop after which
\* the opponent is in check and has no move that isValidMove accepts with
\* checkUchiFuzume false; it accepts a pawn drop that passes the other rules
\* and does not mate; with checkUchiFuzume false the answer is that of the
\* other rules alone, so a drop rejected without the test is rejected with it.
C32_UchiFuzume ==
  ( Tried /\ tried.move.drop /\ tried.move.piece = "Pawn"
    /\ tried.move.to.x \in Coord /\ tried.move.to.y \in Coord ) =>
    LET opponent == Other(tried.turn)
        mate == /\ isKingInCheck(After.board, opponent)
                /\ ~Answerable(After.board, After.hands, opponent)
    IN  /\ ~tried.lax => ~tried.strict
        /\ tried.lax => ( tried.strict <=> ~mate )

\* the pawn drop that mates was rejected, and is accepted without the test
C32_Witness ==
  /\ Tried
  /\ tried.board = Guarded.board
  /\ tried.move = Dr(0, 1, "Pawn")
  /\ tried.lax
  /\ ~tried.strict
  /\ position = Guarded

\* the pawn drop that gives a check the king walks out of was accepted
C32_CheckAnswered ==
  /\ Tried
  /\ tried.board = Unguarded.board
  /\ tried.move = Dr(0, 1, "Pawn")
  /\ tried.strict
  /\ isKingInCheck(position.board, "gote")
  /\ Answerable(position.board, position.hands, "gote")

\* a piece of this kind can never move again from row y
DeadSquare(kind, turn, y) ==
  IF turn = "sente"
  THEN ( kind \in { "Pawn", "Lance" } /\ y = 0 ) \/ ( kind = "Knight" /\ y <= 1 )
  ELSE ( kind \in { "Pawn", "Lance" } /\ y = 8 ) \/ ( kind = "Knight" /\ y >= 7 )

\* C33: isValidMove rejects a move without promotion that takes the piece
\* standing on the from-square, a pawn or lance, to the last rank of its
\* side, or a knight to the last two, whatever kind the move names; and a
\* drop of such a kind on these ranks.
C33_DeadSquares ==
  Tried =>
    LET m == tried.move
    IN  IF m.drop
        THEN DeadSquare(m.piece, tried.turn, m.to.y) => ~tried.strict
        ELSE ( /\ ~m.isPromoted
               /\ DeadSquare(tried.board[m.from.y][m.from.x].type, tried.turn, m.to.y) )
               => ~tried.strict

\* an unpromoted pawn of the side stands on column x
PawnOnColumn(board, side, x) ==
  \E y \in Coord :
    /\ board[y][x].type = "Pawn"
    /\ board[y][x].owner = side
    /\ ~board[y][x].isPromoted

\* two unpromoted pawns of one side stand on one column
TwoPawns(board) ==
  \E side \in Sides, x \in Coord, y1 \in Coord, y2 \in Coord :
    /\ y1 < y2
    /\ \A y \in { y1, y2 } :
         /\ board[y][x].type = "Pawn"
         /\ board[y][x].owner = side
         /\ ~board[y][x].isPromoted

\* the hand holds a piece of the kind: its count is greater than 0
Holds(hand, kind) == CountOf(hand, kind) # NaN /\ CountOf(hand, kind) > 0

\* C34: isValidMove rejects a pawn drop on a column where an unpromoted pawn
\* of the side stands, and a drop of any kind on an occupied square or of a
\* kind of which the hand count is not greater than 0; no position reached
\* by an accepted move has two unpromoted pawns of one side on a column.
C34_Drops ==
  /\ ( Tried /\ tried.move.drop
       /\ tried.move.to.x \in Coord /\ tried.move.to.y \in Coord ) =>
       LET m == tried.move
       IN  /\ ( m.piece = "Pawn" /\ PawnOnColumn(tried.board, tried.turn, m.to.x) )
                => ~tried.strict
           /\ tried.board[m.to.y][m.to.x] # Null => ~tried.strict
           /\ ~Holds(tried.hands[tried.turn], m.piece) => ~tried.strict
  /\ position # NoPosition => ~TwoPawns(position.board)

\* the rules of C34 for the kinds a hand has a key of
C34_KnownKinds ==
  ( Tried /\ tried.move.drop /\ tried.move.piece \in PIECE_TYPES
    /\ tried.move.to.x \in Coord /\ tried.move.to.y \in Coord ) =>
    LET m == tried.move
    IN  /\ ( m.piece = "Pawn" /\ PawnOnColumn(tried.board, tried.turn, m.to.x) )
             => ~tried.strict
        /\ tried.board[m.to.y][m.to.x] # Null => ~tried.strict
        /\ ~Holds(tried.hands[tried.turn], m.piece) => ~tried.strict

\* a drop of a kind no hand has a key of was accepted in the initial position
C34_QueenDropped ==
  /\ Tried
  /\ tried.board = createInitialBoard
  /\ tried.move = Dr(4, 4, "Queen")
  /\ tried.strict
  /\ position.board[4][4] = Piece("Queen", "sente")

\* the pieces on the board
OnBoard(board) == Cardinality({ sq \in Squares : board[sq.y][sq.x] # Null })

RECURSIVE SumOver(_, _)
SumOver(hand, kinds) ==
  IF kinds = { } THEN 0
  ELSE LET k == CHOOSE k \in kinds : TRUE
       IN  hand[k] + SumOver(hand, kinds \ { k })

\* the pieces in the hand; NaN where a count is NaN
InHand(hand) ==
  IF \E k \in DOMAIN hand : hand[k] = NaN THEN NaN ELSE SumOver(hand, DOMAIN hand)

\* the pieces on the board and in the two hands; NaN where a count is NaN
Pieces(board, hands) ==
  IF InHand(hands.sente) = NaN \/ InHand(hands.gote) = NaN THEN NaN
  ELSE OnBoard(board) + InHand(hands.sente) + InHand(hands.gote)

\* C35: after every accepted move the pieces on the board and in the two
\* hands are 40; a capture adds one to the count the capturer holds of the
\* unpromoted kind of the piece taken and leaves one piece less on the
\* board; a drop takes one from the count the side holds of the kind and
\* leaves one piece more on the board.
C35_FortyPieces ==
  /\ position # NoPosition => Pieces(position.board, position.hands) = 40
  /\ ( Tried /\ tried.strict ) =>
       LET m == tried.move
           before == tried.hands[tried.turn]
           after == position.hands[tried.turn]
       IN  IF m.drop
           THEN /\ Holds(before, m.piece)
                /\ CountOf(after, m.piece) = CountOf(before, m.piece) - 1
                /\ OnBoard(position.board) = OnBoard(tried.board) + 1
           ELSE LET taken == tried.board[m.to.y][m.to.x]
                IN  IF taken = Null
                    THEN /\ position.hands = tried.hands
                         /\ OnBoard(position.board) = OnBoard(tried.board)
                    ELSE /\ CountOf(after, getReversePieceType(taken.type))
                              = CountOf(before, getReversePieceType(taken.type)) + 1
                         /\ OnBoard(position.board) = OnBoard(tried.board) - 1

\* a capture was accepted: the promoted lance went to the hand as a lance
C35_Captured ==
  /\ Tried
  /\ tried.strict
  /\ ~tried.move.drop
  /\ tried.board[0][8].type = "PromotedLance"
  /\ tried.move.to = [ x |-> 8, y |-> 0 ]
  /\ position.hands.sente.Lance = 2
  /\ Pieces(position.board, position.hands) = 40

PromotedKinds ==
  { "PromotedPawn", "PromotedLance", "PromotedKnight", "PromotedSilver", "Horse", "Dragon" }

\* C36: on every board reached by accepted moves the promoted flag of a piece
\* is true exactly if its kind is one of the promoted kinds.
C36_PromotedFlag ==
  position # NoPosition =>
    \A sq \in Squares :
      LET p == position.board[sq.y][sq.x]
      IN  p # Null => ( p.isPromoted <=> p.type \in PromotedKinds )

\* in the initial position the move of a gold sent as a promotion was accepted
C36_GoldPromoted ==
  /\ Tried
  /\ tried.board = createInitialBoard
  /\ tried.move = Mv(3, 8, 3, 7, "Gold", TRUE)
  /\ tried.strict
  /\ position.board[7][3] = [ type |-> "Gold", owner |-> "sente", isPromoted |-> TRUE ]

=========================================================================
